---------------------------- MODULE Spec2Model ----------------------------
(***************************************************************************)
(* A model of the ray tracer: the render driver of main.rs (frame loop,    *)
(* parallel pixel initialisation, progress printer), the recursive trace   *)
(* of objects/scene.rs and the intersection kernels of objects/surface.    *)
(*                                                                         *)
(* Numbers.  The program computes in f32.  The model computes exactly in   *)
(* the integers: lengths are multiples of a length unit, and every input   *)
(* set is chosen so that each square root and each division the code       *)
(* performs on it is exact (Sqrt and Div below are defined only then, and  *)
(* TLC stops with an error if an inexact one is ever evaluated).           *)
(***************************************************************************)
EXTENDS Integers, Sequences, FiniteSets, TLC

(***************************************************************************)
(* Bounds of the model                                                     *)
(***************************************************************************)
MaxWidth == 2
MaxHeight == 2
MaxFrames == 3
MaxCells == 4
NumWorkers == 2

(***************************************************************************)
(* math/util.rs, math/vec3.rs                                              *)
(***************************************************************************)
max(rhs, lhs) == IF rhs > lhs THEN rhs ELSE lhs

min(rhs, lhs) == IF rhs < lhs THEN rhs ELSE lhs

Vec3(x, y, z) == <<x, y, z>>

VZero == <<0, 0, 0>>

VAdd(a, b) == <<a[1] + b[1], a[2] + b[2], a[3] + b[3]>>

VSub(a, b) == <<a[1] - b[1], a[2] - b[2], a[3] - b[3]>>

VNeg(a) == <<-a[1], -a[2], -a[3]>>

VScale(k, a) == <<k * a[1], k * a[2], k * a[3]>>

VMul(a, b) == <<a[1] * b[1], a[2] * b[2], a[3] * b[3]>>

Dot(a, b) == a[1] * b[1] + a[2] * b[2] + a[3] * b[3]

LengthSquared(a) == Dot(a, a)

\* lerp(a, b, w) = a * (1 - w) + b * w with w = wn / wd; the result is the
\* numerator of the value over the denominator wd.
LerpNum(a, b, wn, wd) == a * (wd - wn) + b * wn

LerpVecNum_Swapped(a, b, wn, wd) == VAdd(VScale(wn, a), VScale(wd - wn, b))

LerpVecNum(a, b, wn, wd) == VAdd(VScale(wd - wn, a), VScale(wn, b))

(***************************************************************************)
(* Exact arithmetic                                                        *)
(***************************************************************************)
\* f32::sqrt on the perfect squares; any other argument stops TLC.
Sqrt(n) == CHOOSE s \in 0..n : s * s = n

\* f32 division where the quotient is an integer; any other stops TLC.
Div(a, b) ==
    IF b > 0 THEN CHOOSE q \in {a \div b} : q * b = a
             ELSE CHOOSE q \in {(-a) \div (-b)} : q * b = a

Abs(x) == IF x < 0 THEN -x ELSE x

\* Option<T>: None is the empty tuple, Some(v) the tuple of v.
None == <<>>
Some(v) == <<v>>
IsSome(o) == o # None
Unwrap(o) == o[1]

\* math/vec3.rs
VDiv(a, k) == <<Div(a[1], k), Div(a[2], k), Div(a[3], k)>>

Cross(a, b) == <<a[2] * b[3] - a[3] * b[2],
                 a[3] * b[1] - a[1] * b[3],
                 a[1] * b[2] - a[2] * b[1]>>

Length(a) == Sqrt(LengthSquared(a))

Normal(from) == VDiv(from, Length(from))

\* Vec3::reflect: i - 2.0 * dot(n, i) * n
Reflect(i, n) == VSub(i, VScale(2 * Dot(n, i), n))

(***************************************************************************)
(* A quotient of two f32 that is compared but never stored: n/d kept as    *)
(* the pair <<n, d>> with d >= 0.  Division by zero follows IEEE 754:      *)
(* <<1, 0>> is +inf, <<-1, 0>> is -inf and <<0, 0>> is NaN.                *)
(***************************************************************************)
Sign(x) == IF x > 0 THEN 1 ELSE IF x < 0 THEN -1 ELSE 0

FQuot(n, d) ==
    IF d > 0 THEN <<n, d>> ELSE IF d < 0 THEN <<-n, -d>> ELSE <<Sign(n), 0>>

FNum(k) == <<k, 1>>
FInf == <<1, 0>>
FIsNaN(a) == a[1] = 0 /\ a[2] = 0

\* a > b on f32: false whenever either side is NaN.
FGt(a, b) ==
    /\ ~FIsNaN(a)
    /\ ~FIsNaN(b)
    /\ IF a[2] = 0 /\ b[2] = 0 THEN a[1] > b[1]
                               ELSE a[1] * b[2] > b[1] * a[2]

FLt(a, b) == FGt(b, a)
FGe(a, b) == ~FIsNaN(a) /\ ~FIsNaN(b) /\ ~FGt(b, a)
FLe(a, b) == FGe(b, a)

\* math/util.rs max and min on quotients (note the operand kept on NaN).
Fmax(rhs, lhs) == IF FGt(rhs, lhs) THEN rhs ELSE lhs
Fmin(rhs, lhs) == IF FLt(rhs, lhs) THEN rhs ELSE lhs

(***************************************************************************)
(* math/ray.rs                                                             *)
(***************************************************************************)
\* f32::INFINITY as the value of Ray.max_t.
INFINITY == -1

Ray_new(origin, direction) ==
    [origin |-> origin, direction |-> direction, max_t |-> INFINITY]

set_bounds(ray, max_t) == [ray EXCEPT !.max_t = max_t]

\* Ray::t_in_range: (0.0..=self.max_t).contains(&t)
t_in_range(ray, t) == 0 <= t /\ (ray.max_t = INFINITY \/ t <= ray.max_t)

\* Ray::at without the range test.
Ray_at_Unchecked(ray, t) == Some(VAdd(ray.origin, VScale(t, ray.direction)))

\* Ray::at
Ray_at(ray, t) ==
    IF 0 <= t /\ (ray.max_t = INFINITY \/ t <= ray.max_t)
    THEN Some(VAdd(ray.origin, VScale(t, ray.direction)))
    ELSE None

FMaxT(ray) == IF ray.max_t = INFINITY THEN FInf ELSE FNum(ray.max_t)

(***************************************************************************)
(* math/mat4.rs: a Mat4 is its 16 values in row-major order                *)
(***************************************************************************)
identity == <<1, 0, 0, 0,  0, 1, 0, 0,  0, 0, 1, 0,  0, 0, 0, 1>>

from_translation(diff) ==
    <<1, 0, 0, diff[1],  0, 1, 0, diff[2],  0, 0, 1, diff[3],  0, 0, 0, 1>>

from_scaling(s) ==
    <<s[1], 0, 0, 0,  0, s[2], 0, 0,  0, 0, s[3], 0,  0, 0, 0, 1>>

\* from_y_rotation(rad) with sin_r and cos_r the sine and cosine of rad.
from_y_rotation(sin_r, cos_r) ==
    <<cos_r, 0, sin_r, 0,  0, 1, 0, 0,  -sin_r, 0, cos_r, 0,  0, 0, 0, 1>>

transpose(a) ==
    <<a[1], a[5], a[9],  a[13],
      a[2], a[6], a[10], a[14],
      a[3], a[7], a[11], a[15],
      a[4], a[8], a[12], a[16]>>

multiply_vec4(m, vec) ==
    <<m[1] * vec[1] + m[2]  * vec[2] + m[3]  * vec[3] + m[4]  * vec[4],
      m[5] * vec[1] + m[6]  * vec[2] + m[7]  * vec[3] + m[8]  * vec[4],
      m[9] * vec[1] + m[10] * vec[2] + m[11] * vec[3] + m[12] * vec[4]>>

transform_point(m, p) == multiply_vec4(m, <<p[1], p[2], p[3], 1>>)

transform_vector(m, v) == multiply_vec4(m, <<v[1], v[2], v[3], 0>>)

\* Ray::transform
Ray_transform(ray, m) ==
    set_bounds(Ray_new(transform_point(m, ray.origin),
                       transform_vector(m, ray.direction)),
               ray.max_t)

(***************************************************************************)
(* objects/surface/sphere.rs                                               *)
(***************************************************************************)
Sphere_new(center, radius) ==
    [kind |-> "Sphere", center |-> center, radius |-> radius]

intersection_coefficients(s, w) ==
    LET oc == VSub(s.center, w.origin)
    IN  [a |-> LengthSquared(w.direction),
         h |-> Dot(w.direction, oc),
         c |-> LengthSquared(oc) - s.radius * s.radius]

\* d[0].atan2(d[2]) / (2 PI) in quarter turns, on the axes where it is exact.
Atan2Quarters(x, z) ==
    CASE x = 0 /\ z >= 0 -> 0
      [] x > 0 /\ z = 0  -> 1
      [] x = 0 /\ z < 0  -> 2
      [] x < 0 /\ z = 0  -> -1

\* Sphere::get_texel_at, in quarters: u = 0.5 + atan2(d0, d2) / (2 PI) and
\* v = 0.5 - asin(d1) / PI, where asin(1) = PI / 2.
Sphere_get_texel_at(s, p) ==
    LET d == Normal(VSub(s.center, p))
    IN  <<2 + Atan2Quarters(d[1], d[3]), 2 - 2 * d[2]>>

Sphere_has_intersection(s, w) ==
    LET k == intersection_coefficients(s, w)
        discr == k.h * k.h - k.a * k.c
    IN  discr >= 0 /\ IsSome(Ray_at(w, Div(k.h - Sqrt(discr), k.a)))

\* Sphere::intersection that only ever takes the smaller root.
Sphere_intersection_NearOnly(s, w) ==
    LET k == intersection_coefficients(s, w)
        discr == k.h * k.h - k.a * k.c
    IN  IF discr < 0 THEN None
        ELSE LET t == Div(k.h - Sqrt(discr), k.a)
                 point == Ray_at(w, t)
             IN  IF point = None THEN None
                 ELSE Some([t |-> t, normal |-> VSub(Unwrap(point), s.center), texel |-> Sphere_get_texel_at(s, Unwrap(point))])

Sphere_intersection(s, w) ==
    LET k == intersection_coefficients(s, w)
        discr == k.h * k.h - k.a * k.c
    IN  IF discr < 0 THEN None
        ELSE LET sq == Sqrt(discr)
                 t == IF k.h - sq < 0 THEN Div(k.h + sq, k.a)
                                      ELSE Div(k.h - sq, k.a)
                 point == Ray_at(w, t)
             IN  IF point = None THEN None
                 ELSE Some([t |-> t,
                            normal |-> VSub(Unwrap(point), s.center),
                            texel |-> Sphere_get_texel_at(s, Unwrap(point))])

(***************************************************************************)
(* objects/surface/mesh.rs                                                 *)
(***************************************************************************)
\* Triangle::INTERSECT_EPS is 1e-8: below the least positive determinant the
\* integer coordinates can produce, so it is rounded up to that.
INTERSECT_EPS == 1

Triangle_new(points, normals, texcoords) ==
    [points |-> points, normals |-> normals, texcoords |-> texcoords]

\* The Moeller-Trumbore test shared by Triangle::has_intersection and
\* Triangle::intersection.  a and b are the quotients an/det and bn/det.
MoellerTrumbore(tri, w) ==
    LET e1 == VSub(tri.points[2], tri.points[1])
        e2 == VSub(tri.points[3], tri.points[1])
        dxe2 == Cross(w.direction, e2)
        det == Dot(e1, dxe2)
        s == VSub(w.origin, tri.points[1])
        an == Dot(s, dxe2)
        a == FQuot(an, det)
        sxe1 == Cross(s, e1)
        bn == Dot(w.direction, sxe1)
        b == FQuot(bn, det)
    IN  IF Abs(det) < INTERSECT_EPS THEN None
        ELSE IF ~(FGe(a, FNum(0)) /\ FLe(a, FNum(1))) THEN None
        ELSE IF FLt(b, FNum(0)) \/ FGt(FQuot(an + bn, det), FNum(1)) THEN None
        ELSE LET t == Div(Dot(e2, sxe1), det)
             IN  IF t_in_range(w, t)
                 THEN Some([an |-> an, bn |-> bn, det |-> det, t |-> t])
                 ELSE None

Triangle_has_intersection(tri, w) == IsSome(MoellerTrumbore(tri, w))

\* Triangle::normal_at, multiplied by |det| (the caller normalises it).
normal_at(tri, an, bn, det) ==
    VScale(Sign(det),
           VAdd(VScale(det - an - bn, tri.normals[1]),
                VAdd(VScale(an, tri.normals[2]), VScale(bn, tri.normals[3]))))

\* x % 1. on f32, in quarters (the sign of the dividend is kept).
Fract(x) == IF x >= 0 THEN x % 4 ELSE -((-x) % 4)

\* Triangle::texel_at, in quarters.
texel_at(tri, an, bn, det) ==
    LET tc == tri.texcoords
        blend(k) == Div((det - an - bn) * tc[1][k] + an * tc[2][k]
                          + bn * tc[3][k], det)
    IN  <<Fract(blend(1)), Fract(blend(2))>>

Triangle_intersection(tri, w) ==
    LET m == MoellerTrumbore(tri, w)
    IN  IF m = None THEN None
        ELSE LET h == Unwrap(m)
             IN  Some([t |-> h.t,
                       normal |-> normal_at(tri, h.an, h.bn, h.det),
                       texel |-> texel_at(tri, h.an, h.bn, h.det)])

SetMin(S) == CHOOSE x \in S : \A y \in S : x <= y
SetMax(S) == CHOOSE x \in S : \A y \in S : x >= y

\* BoundingBox::from
BoundingBox_from(points) ==
    LET coord(k) == {points[i][k] : i \in 1..Len(points)}
        lo(k) == IF points = <<>> THEN 0 ELSE SetMin(coord(k))
        hi(k) == IF points = <<>> THEN 0 ELSE SetMax(coord(k))
    IN  [min |-> <<lo(1), lo(2), lo(3)>>, max |-> <<hi(1), hi(2), hi(3)>>]

\* The slab of one axis in BoundingBox::has_intersection: <<near, far>>.
Slab(bb, w, k) ==
    IF w.direction[k] >= 0
    THEN <<FQuot(bb.min[k] - w.origin[k], w.direction[k]),
           FQuot(bb.max[k] - w.origin[k], w.direction[k])>>
    ELSE <<FQuot(bb.max[k] - w.origin[k], w.direction[k]),
           FQuot(bb.min[k] - w.origin[k], w.direction[k])>>

BoundingBox_has_intersection(bb, w) ==
    LET x == Slab(bb, w, 1)
        y == Slab(bb, w, 2)
        z == Slab(bb, w, 3)
        tmin1 == Fmax(x[1], y[1])
        tmax1 == Fmin(x[2], y[2])
        tmin2 == Fmax(tmin1, z[1])
        tmax2 == Fmin(tmax1, z[2])
    IN  IF FGt(x[1], y[2]) \/ FGt(y[1], x[2]) THEN FALSE
        ELSE IF FGt(tmin1, z[2]) \/ FGt(z[1], tmax1) THEN FALSE
        ELSE FLt(tmin2, FMaxT(w)) /\ FGt(tmax2, FNum(0))

\* Mesh::new
Mesh_new(triangles) ==
    [kind |-> "Mesh", triangles |-> triangles,
     bounding_box |->
         BoundingBox_from([i \in 1..(3 * Len(triangles)) |->
             triangles[((i - 1) \div 3) + 1].points[((i - 1) % 3) + 1]])]

\* Iterator::filter_map over a sequence of Options.
Flatten(opts) ==
    LET present(o) == IsSome(o)
        kept == SelectSeq(opts, present)
    IN  [i \in 1..Len(kept) |-> Unwrap(kept[i])]

\* Iterator::min_by on t: of several equally minimal elements the first.
MinByT(hits) ==
    IF hits = <<>> THEN None
    ELSE Some(hits[CHOOSE i \in 1..Len(hits) :
                     /\ \A j \in 1..Len(hits) : hits[i].t <= hits[j].t
                     /\ \A j \in 1..(i - 1) : hits[j].t > hits[i].t])

Mesh_has_intersection(m, w) ==
    IF BoundingBox_has_intersection(m.bounding_box, w)
    THEN \E i \in 1..Len(m.triangles) :
             Triangle_has_intersection(m.triangles[i], w)
    ELSE FALSE

Mesh_intersection(m, w) ==
    IF ~BoundingBox_has_intersection(m.bounding_box, w) THEN None
    ELSE MinByT(Flatten([i \in 1..Len(m.triangles) |->
                            Triangle_intersection(m.triangles[i], w)]))

(***************************************************************************)
(* objects/surface/julia_set.rs                                            *)
(*                                                                         *)
(* The quaternion iteration and the logarithm of the distance estimate are *)
(* not computed: a Julia set carries, as `estimate`, the value the code's  *)
(* arithmetic yields at the points the march visits (distance estimate and *)
(* estimated normal), and `elsewhere` for every other point.  The estimate *)
(* 0.5 * |z| * log2 |z| / |z'| is negative where the iteration ends with   *)
(* |z| < 1.                                                                *)
(***************************************************************************)
\* JuliaSet::BOUNDING_RADIUS_2 is 2.5, in squares of the length unit 1/2.
BOUNDING_RADIUS_2 == 10

JuliaSet_new(pos, epsilon, estimate, elsewhere) ==
    [kind |-> "JuliaSet", pos |-> pos, epsilon |-> epsilon,
     estimate |-> estimate, elsewhere |-> elsewhere]

Estimate(j, p) ==
    IF p \in DOMAIN j.estimate THEN j.estimate[p] ELSE j.elsewhere

\* The loop of JuliaSet::intersection_dist from the position orig.
RECURSIVE intersection_dist(_, _, _)
intersection_dist(j, orig, dir) ==
    LET dist == Estimate(j, orig).dist
        next == VAdd(orig, VScale(dist, dir))
    IN  IF dist < j.epsilon \/ LengthSquared(next) > BOUNDING_RADIUS_2
        THEN [dist |-> dist, p |-> next]
        ELSE intersection_dist(j, next, dir)

\* JuliaSet::sphere_intersect
sphere_intersect(w) ==
    LET a == LengthSquared(w.direction)
        h == Dot(w.direction, w.origin)
        c == LengthSquared(w.origin) - BOUNDING_RADIUS_2
        discr == h * h - a * c
    IN  IF discr < 0 THEN None
        ELSE Some(Div(min(-h + Sqrt(discr), -h - Sqrt(discr)), a))

estimate_normal(j, p) == Estimate(j, p).normal

JuliaSet_has_intersection(j, w0) ==
    LET w == Ray_new(VSub(w0.origin, j.pos), w0.direction)
        t == sphere_intersect(w)
    IN  IF t = None THEN FALSE
        ELSE LET p == Ray_at(w, Unwrap(t))
             IN  IF p = None THEN FALSE
                 ELSE intersection_dist(j, Unwrap(p), w.direction).dist
                          < j.epsilon

JuliaSet_intersection(j, w0) ==
    LET w == Ray_new(VSub(w0.origin, j.pos), w0.direction)
        t == sphere_intersect(w)
    IN  IF t = None THEN None
        ELSE LET p == Ray_at(w, Unwrap(t))
             IN  IF p = None THEN None
                 ELSE LET m == intersection_dist(j, Unwrap(p), w.direction)
                      IN  IF m.dist >= j.epsilon THEN None
                          ELSE Some([t |-> Unwrap(t) + m.dist,
                                     normal |-> estimate_normal(j, m.p),
                                     texel |-> <<0, 0>>])

(***************************************************************************)
(* objects/surface/mod.rs                                                  *)
(***************************************************************************)
\* Surface::set_transform: the inverse transform and its transpose.
Transform_new(inverse) ==
    [transform |-> inverse, normal_transform |-> transpose(inverse)]

Surface_new(obj, transform, material) ==
    [obj |-> obj, transform |-> transform, material |-> material]

\* The ray the kernel is given.
Surface_with(s, ray) ==
    IF IsSome(s.transform)
    THEN Ray_transform(ray, Unwrap(s.transform).transform)
    ELSE ray

\* The match on self.obj in Surface::intersection.
Object_intersection(obj, w) ==
    CASE obj.kind = "JuliaSet" -> JuliaSet_intersection(obj, w)
      [] obj.kind = "Sphere"   -> Sphere_intersection(obj, w)
      [] obj.kind = "Mesh"     -> Mesh_intersection(obj, w)

\* The match on self.obj in Surface::has_intersection.
Object_has_intersection(obj, w) ==
    CASE obj.kind = "JuliaSet" -> JuliaSet_has_intersection(obj, w)
      [] obj.kind = "Sphere"   -> Sphere_has_intersection(obj, w)
      [] obj.kind = "Mesh"     -> Mesh_has_intersection(obj, w)

\* The rest of Surface::intersection, from the kernel's answer k.
Surface_finish(s, ray, k) ==
    IF k = None THEN None
    ELSE LET h == Unwrap(k)
             normal ==
                 IF IsSome(s.transform)
                 THEN Normal(transform_vector(
                          Unwrap(s.transform).normal_transform, h.normal))
                 ELSE Normal(h.normal)
             point == Ray_at(ray, h.t)
         IN  IF point = None THEN None
             ELSE Some([point |-> Unwrap(point), t |-> h.t,
                        normal |-> normal, texel |-> h.texel,
                        material |-> s.material])

Surface_has_intersection(s, ray) ==
    Object_has_intersection(s.obj, Surface_with(s, ray))

Surface_intersection(s, ray) ==
    Surface_finish(s, ray, Object_intersection(s.obj, Surface_with(s, ray)))

(***************************************************************************)
(* State of a run of main.rs                                               *)
(***************************************************************************)
VARIABLES
    cfg,           \* the loaded input: width, height, frames, progress_bar
    surfaces,      \* scene.surfaces (animated surfaces change per frame)
    curr_frame,    \* scene.animated.curr_frame
    img,           \* img.buf: frame -> cell -> pixel
    pc,            \* position of the main thread in run()
    frame,         \* the loop variable of `for frame in 0..frames`
    coords,        \* the coords vector of par_init_pixels
    pending,       \* cells of the parallel iterator not yet taken
    collected,     \* cells already mapped by a worker
    workers,       \* the rayon workers inside par_iter_mut().map(op)
    chan,          \* messages queued in the mpsc channel
    printer        \* the progress thread and its ProgressBar

varsRender == <<cfg, surfaces, curr_frame, img, pc, frame, coords, pending,
                collected, workers, chan, printer>>

(***************************************************************************)
(* State of one call of Surface::intersection / Surface::has_intersection  *)
(***************************************************************************)
VARIABLES
    surface,       \* self: the surface the ray is tested against
    original_ray,  \* the ray passed in
    kpc,           \* position inside Surface::intersection
    with,          \* the ray handed to the kernel (object space)
    kernel,        \* what the kernel returned: (t, normal, texel) or None
    ret,           \* what Surface::intersection returned
    has,           \* what Surface::has_intersection returned
    at             \* the last Ray::at evaluated on original_ray

varsKernel == <<surface, original_ray, kpc, with, kernel, ret, has, at>>

(***************************************************************************)
(* State of one call of Scene::trace_pixel                                 *)
(***************************************************************************)
VARIABLES
    scene,         \* the scene: surfaces, lights, background, max_bounces
    stack,         \* the activations of Scene::recursive_trace, outermost first
    result,        \* the colour the outermost recursive_trace returned
    log            \* the completed activations of the current pixel

varsTrace == <<scene, stack, result, log>>

\* A single call of a library function of the crate, outside the three machines
\* above: the function called with its arguments, and what the call did.
VARIABLES
    call,          \* the function called and its arguments
    outcome        \* what the call returned, or that it panicked

varsCall == <<call, outcome>>

vars == <<varsRender, varsKernel, varsTrace, varsCall>>

\* The render driver is not running.
RenderIdle ==
    /\ cfg = [width |-> 0, height |-> 0, frames |-> 0, progress_bar |-> FALSE]
    /\ surfaces = <<>>
    /\ curr_frame = 1
    /\ img = <<>>
    /\ pc = "done"
    /\ frame = 0
    /\ coords = <<>>
    /\ pending = {}
    /\ collected = <<>>
    /\ workers = <<>>
    /\ chan = 0
    /\ printer = <<>>

\* No library function is being called.
CallIdle ==
    /\ call = [fn |-> "none", args |-> <<>>]
    /\ outcome = <<>>

\* No surface is being tested.
KernelIdle ==
    /\ surface = <<>>
    /\ original_ray = <<>>
    /\ kpc = "idle"
    /\ with = <<>>
    /\ kernel = <<>>
    /\ ret = <<>>
    /\ has = <<>>
    /\ at = <<>>

\* No pixel is being traced.
TraceIdle ==
    /\ scene = <<>>
    /\ stack = <<>>
    /\ result = <<>>
    /\ log = <<>>

\* A pixel before it is rendered (Image::new fills the buffer with [0; 3]).
Black == [u |-> -1, v |-> -1, frame |-> 0, snap |-> <<>>]

NoEnd == <<>>

\* Surface::sphere followed by set_sphere_end when the document gives an end.
SphereSurface(center, radius, end) ==
    [kind |-> "Sphere", center |-> center, radius |-> radius, den |-> 1,
     start |-> <<center, radius>>, end |-> end]

\* Surface::julia_set followed by set_julia_end when the document gives one.
JuliaSurface(c, endc) ==
    [kind |-> "JuliaSet", c |-> c, den |-> 1, startc |-> c, endc |-> endc]

MeshSurface == [kind |-> "Mesh"]

\* Sphere::set_frame with w = wn / wd: only a sphere with end parameters moves.
Sphere_set_frame(s, wn, wd) ==
    IF s.end # NoEnd
    THEN [s EXCEPT !.center = LerpVecNum(s.start[1], s.end[1], wn, wd),
                   !.radius = LerpNum(s.start[2], s.end[2], wn, wd),
                   !.den = wd]
    ELSE s

\* JuliaSet::set_frame with w = wn / wd.
JuliaSet_set_frame(j, wn, wd) ==
    IF j.endc # NoEnd
    THEN [j EXCEPT !.c = [i \in 1..4 |-> LerpNum(j.startc[i], j.endc[i], wn, wd)],
                   !.den = wd]
    ELSE j

\* Surface::frame_perc
frame_perc(s, wn, wd) ==
    CASE s.kind = "Sphere" -> Sphere_set_frame(s, wn, wd)
      [] s.kind = "JuliaSet" -> JuliaSet_set_frame(s, wn, wd)
      [] OTHER -> s

\* The part of a surface a trace reads: its current geometry.
Geometry(s) ==
    CASE s.kind = "Sphere" -> <<"Sphere", s.center, s.radius, s.den>>
      [] s.kind = "JuliaSet" -> <<"JuliaSet", s.c, s.den>>
      [] OTHER -> <<"Mesh">>

\* A trace whose colour also depends on how many cells are still to be taken.
trace_pixel_OrderDependent(u, v) ==
    [u |-> u, v |-> v, frame |-> curr_frame + Cardinality(pending),
     snap |-> [i \in 1..Len(surfaces) |-> Geometry(surfaces[i])]]

\* Scene::trace_pixel(u, v) followed by to_rgb, as seen by the render driver:
\* the colour is a function of (u, v) and of the scene as it is when the
\* pixel is traced; the model keeps these arguments instead of the colour.
trace_pixel(u, v) ==
    [u |-> u, v |-> v, frame |-> curr_frame,
     snap |-> [i \in 1..Len(surfaces) |-> Geometry(surfaces[i])]]

NumCells == cfg.width * cfg.height

\* One step of the (x, y) counter of par_init_pixels.
CoordStep(xy, width) ==
    IF xy[1] < width - 1 THEN <<xy[1] + 1, xy[2]>> ELSE <<0, xy[2] + 1>>

\* The counter steps before it yields, so the k-th closure call (k = 0, 1, ..)
\* yields the counter after k + 1 steps.
RECURSIVE CoordAfter(_, _)
CoordAfter(k, width) ==
    IF k = 0 THEN <<0, 0>> ELSE CoordStep(CoordAfter(k - 1, width), width)

CoordsOf(n, width) == [i \in 0..(n - 1) |-> CoordAfter(i + 1, width)]

IdleWorker == [pc |-> "idle", idx |-> -1, ret |-> Black]

NoPrinter == [pc |-> "none", pixels_processed |-> 0, frame |-> 1, curr |-> 0,
              max |-> 0]

\* The documents the model loads.
StartCenters == {<<0, 0, -3>>}
EndCenters == {<<0, 0, -5>>, <<3, 0, -3>>}

SurfaceLists ==
    {<<SphereSurface(c, 1, NoEnd)>> : c \in StartCenters}
    \cup {<<SphereSurface(c, 1, <<e, 2>>), MeshSurface>> :
            c \in StartCenters, e \in EndCenters}
    \cup {<<JuliaSurface(<<0, 1, 0, 0>>, <<2, 1, 0, -1>>),
            SphereSurface(<<0, 0, -3>>, 1, <<<<0, 0, -5>>, 1>>)>>}

InitRender ==
    /\ cfg \in {c \in [width : 0..MaxWidth, height : 0..MaxHeight,
                         frames : 0..MaxFrames, progress_bar : BOOLEAN] :
                    c.width * c.height <= MaxCells}
    /\ surfaces \in SurfaceLists
    /\ curr_frame = 1
    /\ img = [f \in 0..(cfg.frames - 1) |-> [i \in 0..(NumCells - 1) |-> Black]]
    /\ pc = "loop"
    /\ frame = 0
    /\ coords = <<>>
    /\ pending = {}
    /\ collected = [i \in 0..(NumCells - 1) |-> Black]
    /\ workers = [w \in 1..NumWorkers |-> IdleWorker]
    /\ chan = 0
    /\ printer = IF cfg.progress_bar
                 THEN [pc |-> "recv", pixels_processed |-> 0, frame |-> 1,
                       curr |-> 0, max |-> NumCells]
                 ELSE NoPrinter
    /\ KernelIdle
    /\ TraceIdle
    /\ CallIdle

(***************************************************************************)
(* main.rs, run(): the render loop                                         *)
(***************************************************************************)
\* `for frame in 0..frames`: the next iteration calls img.par_init_pixels,
\* which first builds the coords vector sequentially.
ParInitStart ==
    /\ pc = "loop"
    /\ frame < cfg.frames
    /\ coords' = CoordsOf(NumCells, cfg.width)
    /\ pending' = 0..(NumCells - 1)
    /\ collected' = [i \in 0..(NumCells - 1) |-> Black]
    /\ pc' = "par"
    /\ UNCHANGED <<varsKernel, varsTrace, varsCall, cfg, surfaces, curr_frame, img, frame, workers, chan, printer>>

\* The loop is over: run() goes on to join the progress thread.
LoopExit ==
    /\ pc = "loop"
    /\ frame >= cfg.frames
    /\ pc' = "join"
    /\ UNCHANGED <<varsKernel, varsTrace, varsCall, cfg, surfaces, curr_frame, img, frame, coords, pending,
                   collected, workers, chan, printer>>

\* A rayon worker takes the next item of coords.par_iter_mut().
WorkerTake(w) ==
    /\ pc = "par"
    /\ workers[w].pc = "idle"
    /\ \E i \in pending :
          /\ pending' = pending \ {i}
          /\ workers' = [workers EXCEPT ![w] = [pc |-> "trace", idx |-> i, ret |-> Black]]
    /\ UNCHANGED <<varsKernel, varsTrace, varsCall, cfg, surfaces, curr_frame, img, pc, frame, coords, collected,
                   chan, printer>>

\* The closure of run(): scene.trace_pixel(*x, height - *y).to_rgb()
WorkerTrace(w) ==
    /\ workers[w].pc = "trace"
    /\ LET xy == coords[workers[w].idx]
       IN workers' = [workers EXCEPT ![w].pc = "send",
                                     ![w].ret = trace_pixel(xy[1], cfg.height - xy[2])]
    /\ UNCHANGED <<varsKernel, varsTrace, varsCall, cfg, surfaces, curr_frame, img, pc, frame, coords, pending,
                   collected, chan, printer>>

\* The receiver exists while main holds it (no progress bar) or while the
\* progress thread that owns it runs.
ReceiverAlive == printer.pc # "exited"

\* A send on a channel that takes a message only while the receiver exists
\* and the queue is empty.
WorkerSend_Rendezvous(w) ==
    /\ workers[w].pc = "send"
    /\ ReceiverAlive
    /\ chan = 0
    /\ chan' = chan + 1
    /\ collected' = [collected EXCEPT ![workers[w].idx] = workers[w].ret]
    /\ workers' = [workers EXCEPT ![w] = IdleWorker]
    /\ UNCHANGED <<varsKernel, varsTrace, varsCall, cfg, surfaces, curr_frame, img, pc, frame, coords, pending, printer>>

\* `let _ = tx.send(())`, then the closure returns its pixel to collect().
\* The channel is unbounded: send never blocks, and its error is dropped.
WorkerSend(w) ==
    /\ workers[w].pc = "send"
    /\ chan' = IF ReceiverAlive THEN chan + 1 ELSE chan
    /\ collected' = [collected EXCEPT ![workers[w].idx] = workers[w].ret]
    /\ workers' = [workers EXCEPT ![w] = IdleWorker]
    /\ UNCHANGED <<varsKernel, varsTrace, varsCall, cfg, surfaces, curr_frame, img, pc, frame, coords, pending, printer>>

\* collect() returns when every item has been mapped.
ParDoneGuard_NoWait == pending = {}

ParDoneGuard == pending = {} /\ \A w \in 1..NumWorkers : workers[w].pc = "idle"

\* par_init_pixels: `*f = coords.par_iter_mut().map(op).collect()`
ParDone ==
    /\ pc = "par"
    /\ ParDoneGuard
    /\ img' = [img EXCEPT ![frame] = collected]
    /\ pc' = "next_frame"
    /\ UNCHANGED <<varsKernel, varsTrace, varsCall, cfg, surfaces, curr_frame, frame, coords, pending, collected,
                   workers, chan, printer>>

\* Scene::next_frame, then the loop variable advances.
NextFrame ==
    /\ pc = "next_frame"
    /\ curr_frame' = curr_frame + 1
    /\ surfaces' = [i \in 1..Len(surfaces) |->
                       frame_perc(surfaces[i], curr_frame + 1, cfg.frames)]
    /\ frame' = frame + 1
    /\ pc' = "loop"
    /\ UNCHANGED <<varsKernel, varsTrace, varsCall, cfg, img, coords, pending, collected, workers, chan, printer>>

\* `if let Some(handle) = progress_thread { let _ = handle.join(); }`
Join ==
    /\ pc = "join"
    /\ cfg.progress_bar => printer.pc = "exited"
    /\ pc' = "save"
    /\ UNCHANGED <<varsKernel, varsTrace, varsCall, cfg, surfaces, curr_frame, img, frame, coords, pending,
                   collected, workers, chan, printer>>

\* The image is saved and run() returns.
Save ==
    /\ pc = "save"
    /\ pc' = "done"
    /\ UNCHANGED <<varsKernel, varsTrace, varsCall, cfg, surfaces, curr_frame, img, frame, coords, pending,
                   collected, workers, chan, printer>>

\* ProgressBar::WIDTH
WIDTH == 50

\* The number of filled cells ProgressBar::next prints for the counter:
\* (WIDTH * percent) as usize with percent = curr / max.
ProgressBar_full(p) == (WIDTH * p.curr) \div p.max

\* ProgressBar::next: the counter advances (printing is not modelled).
ProgressBar_next(p) == [p EXCEPT !.curr = p.curr + 1]

\* ProgressBar::reset: curr = 0, then next().
ProgressBar_reset(p) == ProgressBar_next([p EXCEPT !.curr = 0])

\* One iteration of `while rx.recv().is_ok()` of the progress thread.
PrinterRecv ==
    /\ printer.pc = "recv"
    /\ chan > 0
    /\ chan' = chan - 1
    /\ LET p1 == ProgressBar_next(
                    [printer EXCEPT !.pixels_processed = printer.pixels_processed + 1])
       IN printer' =
            IF p1.pixels_processed >= cfg.width * cfg.height
            THEN IF p1.frame + 1 >= cfg.frames
                 THEN [p1 EXCEPT !.pixels_processed = 0, !.frame = p1.frame + 1,
                                 !.pc = "exited"]
                 ELSE ProgressBar_reset(
                         [p1 EXCEPT !.pixels_processed = 0, !.frame = p1.frame + 1])
            ELSE p1
    /\ UNCHANGED <<varsKernel, varsTrace, varsCall, cfg, surfaces, curr_frame, img, pc, frame, coords, pending,
                   collected, workers>>

NextRender ==
    \/ ParInitStart
    \/ LoopExit
    \/ \E w \in 1..NumWorkers : WorkerTake(w)
    \/ \E w \in 1..NumWorkers : WorkerTrace(w)
    \/ \E w \in 1..NumWorkers : WorkerSend(w)
    \/ ParDone
    \/ NextFrame
    \/ Join
    \/ Save
    \/ PrinterRecv

SpecRender == InitRender /\ [][NextRender]_vars

(***************************************************************************)
(* Claims about the render driver                                          *)
(***************************************************************************)
\* Frame f (counted from 1) has been rendered and stored in img.
FrameStored(f) == f - 1 < frame \/ (f - 1 = frame /\ pc = "next_frame")

Cells == 0..(NumCells - 1)

\* lerp(a, b, f / F) as the claims state it, times F: a + (b - a) * (f / F).
ClaimLerp(a, b, f, F) == a * F + (b - a) * f

ClaimLerpVec(a, b, f, F) == [k \in 1..3 |-> ClaimLerp(a[k], b[k], f, F)]

\* The sphere geometry g = <<"Sphere", center, radius, den>> a pixel was
\* traced with equals centre c and radius r, both over the denominator d.
SphereTracedAt(g, c, r, d) ==
    /\ VScale(d, g[2]) = VScale(g[4], c)
    /\ d * g[3] = g[4] * r

IsAnimatedSphere(s) == s.kind = "Sphere" /\ s.end # NoEnd

\* C8 (as stated): in an animated scene every frame f in 1..F is traced with
\* each animated sphere at lerp(start, end, f / F); with F = 3, start
\* (0,0,-3) and end (0,0,-5), frame 2 uses the centre (0,0,-3.667) = -11/3.
C8_AnimationLinearity ==
    cfg.frames >= 2 =>
      \A f \in 1..cfg.frames : \A i \in Cells : \A k \in 1..Len(surfaces) :
        (FrameStored(f) /\ IsAnimatedSphere(surfaces[k])) =>
          LET s == surfaces[k]
              g == img[f - 1][i].snap[k]
          IN /\ SphereTracedAt(g, ClaimLerpVec(s.start[1], s.end[1], f, cfg.frames),
                               ClaimLerp(s.start[2], s.end[2], f, cfg.frames), cfg.frames)
             /\ (cfg.frames = 3 /\ f = 2 /\ s.start[1] = <<0, 0, -3>>
                    /\ s.end[1] = <<0, 0, -5>>)
                  => VScale(3, g[2]) = VScale(g[4], <<0, 0, -11>>)

\* C8 (amended): frame 1 is traced with every animated sphere at its start
\* parameters, and every frame f in 2..F with the sphere at
\* lerp(start, end, f / F), a Julia set at c = lerp(startc, endc, f / F);
\* with F = 3, start (0,0,-3), end (0,0,-5), frame 2 uses (0,0,-13/3).
C8_AnimationFromSecondFrame ==
    \A f \in 1..cfg.frames : \A i \in Cells : \A k \in 1..Len(surfaces) :
      FrameStored(f) =>
        LET s == surfaces[k]
            g == img[f - 1][i].snap[k]
        IN /\ (IsAnimatedSphere(s) /\ f = 1) =>
                 SphereTracedAt(g, s.start[1], s.start[2], 1)
           /\ (IsAnimatedSphere(s) /\ f >= 2) =>
                 SphereTracedAt(g, ClaimLerpVec(s.start[1], s.end[1], f, cfg.frames),
                                ClaimLerp(s.start[2], s.end[2], f, cfg.frames),
                                cfg.frames)
           /\ (IsAnimatedSphere(s) /\ cfg.frames = 3 /\ f = 2
                  /\ s.start[1] = <<0, 0, -3>> /\ s.end[1] = <<0, 0, -5>>)
                => VScale(3, g[2]) = VScale(g[4], <<0, 0, -13>>)
           /\ (s.kind = "JuliaSet" /\ s.endc # NoEnd) =>
                 \A q \in 1..4 :
                    cfg.frames * g[2][q] =
                       g[3] * (IF f = 1 THEN s.startc[q] * cfg.frames
                               ELSE ClaimLerp(s.startc[q], s.endc[q], f, cfg.frames))

\* The second of three frames of a scene with a moving sphere has been stored.
C8_Witness ==
    /\ cfg.frames = 3
    /\ NumCells >= 1
    /\ FrameStored(2)
    /\ \E k \in 1..Len(surfaces) :
          /\ IsAnimatedSphere(surfaces[k])
          /\ surfaces[k].start[1] = <<0, 0, -3>>
          /\ surfaces[k].end[1] = <<0, 0, -5>>

\* C9: frames are processed strictly sequentially: a pixel is traced only
\* inside par_init_pixels, next_frame runs only once every pixel of the
\* frame has been traced and stored, and all pixels of a frame are traced
\* against the same scene state, for every interleaving of the workers.
C9_FramesSequential ==
    /\ \A w \in 1..NumWorkers : workers[w].pc # "idle" => pc = "par"
    /\ pc = "next_frame" =>
          /\ pending = {}
          /\ \A i \in Cells : img[frame][i] # Black
    /\ \A w \in 1..NumWorkers :
          workers[w].pc = "send" => workers[w].ret.frame = frame + 1
    /\ \A f \in 1..cfg.frames : FrameStored(f) =>
          \A i, j \in Cells :
             /\ img[f - 1][i].frame = f
             /\ img[f - 1][i].snap = img[f - 1][j].snap

\* Two frames of several pixels are stored and the scene moved in between.
C9_Witness ==
    /\ NumCells >= 2
    /\ FrameStored(2)
    /\ img[0][0].snap # img[1][0].snap
    /\ img[1][0].snap = img[1][1].snap

\* C10 (as stated): par_init_pixels(frame, op) gives the cell at row-major
\* index i the value of op at its own coordinates (i mod width, i div
\* width), which lie inside the image, and leaves the other frames alone.
C10_CellGetsOwnCoordinates ==
    pc = "next_frame" =>
       /\ \A i \in Cells :
             /\ img[frame][i] = trace_pixel(i % cfg.width,
                                            cfg.height - (i \div cfg.width))
             /\ coords[i][1] < cfg.width
             /\ coords[i][2] < cfg.height
       /\ \A f \in (frame + 1)..(cfg.frames - 1) : \A i \in Cells : img[f][i] = Black


(***************************************************************************)
(* objects/surface/material.rs: the data of a material.  Reflectance and   *)
(* transmittance are kept in quarters (4 stands for 1.0), the index of     *)
(* refraction as the pair <<numerator, denominator>>.                      *)
(***************************************************************************)
Texture_Color(c) == [kind |-> "Color", color |-> c]

Phong(ka, kd, ks, exp) ==
    [kind |-> "Phong", ka |-> ka, kd |-> kd, ks |-> ks, exp |-> exp]

Material_new(texture, reflectance, transmittance, refraction, shading) ==
    [texture |-> texture, reflectance |-> reflectance,
     transmittance |-> transmittance, refraction |-> refraction,
     shading |-> shading]

(***************************************************************************)
(* input/serial_types.rs: From<Transform> for Mat4 builds the inverse of   *)
(* the transformation.                                                     *)
(***************************************************************************)
\* Transform::Translate { x, y, z }
Translate(x, y, z) == from_translation(<<-x, -y, -z>>)

\* Transform::Scale { x: 1/kx, y: 1/ky, z: 1/kz }
ScaleBy1Over(kx, ky, kz) == from_scaling(<<kx, ky, kz>>)

\* Transform::RotateY { theta: 90 }: the sine of -90 degrees is -1, the
\* cosine 0.
RotateY90 == from_y_rotation(-1, 0)

(***************************************************************************)
(* The surfaces and rays the kernels are exercised on.  Lengths are in     *)
(* units of 1/2.                                                           *)
(***************************************************************************)
MaxBound == 6

Matte == Material_new(Texture_Color(<<4, 4, 4>>), 0, 0, <<1, 1>>,
                      Phong(1, 1, 0, 1))

Facing == <<<<0, 0, 1>>, <<0, 0, 1>>, <<0, 0, 1>>>>
NoTexCoords == <<<<0, 0>>, <<0, 0>>, <<0, 0>>>>

NearTriangle ==
    Triangle_new(<<<<-4, -4, -4>>, <<4, -4, -4>>, <<0, 4, -4>>>>,
                 Facing, NoTexCoords)

FarTriangle ==
    Triangle_new(<<<<-8, -8, -6>>, <<8, -8, -6>>, <<0, 8, -6>>>>,
                 Facing, NoTexCoords)

Up == <<0, 0, 1>>

\* A set whose march from the entry point (-1, 0, 3) takes one step of 2 and
\* then meets the surface.
SolidJulia(pos) ==
    JuliaSet_new(pos, 1,
                 (<<-1, 0, 3>> :> [dist |-> 2, normal |-> Up])
                     @@ (<<-1, 0, 1>> :> [dist |-> 0, normal |-> Up]),
                 [dist |-> 7, normal |-> Up])

\* A set whose iteration at the entry point (-1, 0, 3) ends inside the unit
\* ball, so that the distance estimate there is negative.
DenseJulia(pos) ==
    JuliaSet_new(pos, 1,
                 <<-1, 0, 3>> :> [dist |-> -1, normal |-> Up],
                 [dist |-> 7, normal |-> Up])

KernelSurfaces ==
    { Surface_new(Sphere_new(<<0, 0, -8>>, 2), None, Matte),
      Surface_new(Sphere_new(<<0, 0, -8>>, 2),
                  Some(Transform_new(ScaleBy1Over(2, 2, 2))), Matte),
      Surface_new(Sphere_new(<<0, 0, -4>>, 2),
                  Some(Transform_new(Translate(0, 0, -4))), Matte),
      Surface_new(Sphere_new(<<8, 0, 0>>, 2),
                  Some(Transform_new(RotateY90)), Matte),
      Surface_new(Mesh_new(<<FarTriangle, NearTriangle>>), None, Matte),
      Surface_new(Mesh_new(<<FarTriangle, NearTriangle>>),
                  Some(Transform_new(ScaleBy1Over(2, 2, 2))), Matte),
      Surface_new(SolidJulia(<<1, 0, -8>>), None, Matte),
      Surface_new(SolidJulia(<<1, 0, -6>>),
                  Some(Transform_new(Translate(0, 0, -2))), Matte),
      Surface_new(DenseJulia(<<1, 0, -8>>), None, Matte) }

KernelRays ==
    { set_bounds(Ray_new(<<x, 0, z>>, d), m) :
          x \in {0, 2, 4}, z \in {0, -5, -8, -12},
          d \in {<<0, 0, -1>>, <<0, 0, 1>>},
          m \in {INFINITY} \cup 1..MaxBound }

(***************************************************************************)
(* Surface::intersection and Surface::has_intersection, step by step       *)
(***************************************************************************)
InitKernel ==
    /\ RenderIdle
    /\ TraceIdle
    /\ CallIdle
    /\ surface \in KernelSurfaces
    /\ original_ray \in KernelRays
    /\ kpc = "start"
    /\ with = <<>>
    /\ kernel = None
    /\ ret = None
    /\ has = <<>>
    /\ at = <<>>

\* let with = if let Some(t) = &self.transform { with.transform(..) } ..
TransformRay ==
    /\ kpc = "start"
    /\ with' = Surface_with(surface, original_ray)
    /\ kpc' = "kernel"
    /\ UNCHANGED <<varsRender, varsTrace, varsCall, surface, original_ray, kernel, ret,
                   has, at>>

\* let (t, normal, texel) = match &self.obj { .. }?
CallKernel ==
    /\ kpc = "kernel"
    /\ kernel' = Object_intersection(surface.obj, with)
    /\ kpc' = "finish"
    /\ UNCHANGED <<varsRender, varsTrace, varsCall, surface, original_ray, with, ret,
                   has, at>>

\* the normal transform and Some(Intersection { point: original_ray.at(t)?, .. })
FinishIntersection ==
    /\ kpc = "finish"
    /\ ret' = Surface_finish(surface, original_ray, kernel)
    /\ kpc' = "returned"
    /\ UNCHANGED <<varsRender, varsTrace, varsCall, surface, original_ray, with, kernel,
                   has, at>>

\* Surface::has_intersection on the same ray
HasIntersection ==
    /\ kpc = "returned"
    /\ has' = <<Surface_has_intersection(surface, original_ray)>>
    /\ kpc' = "tested"
    /\ UNCHANGED <<varsRender, varsTrace, varsCall, surface, original_ray, with, kernel,
                   ret, at>>

\* Ray::at on the same ray
EvalAt(t) ==
    /\ kpc = "tested"
    /\ at' = [t |-> t, point |-> Ray_at(original_ray, t)]
    /\ kpc' = "done"
    /\ UNCHANGED <<varsRender, varsTrace, varsCall, surface, original_ray, with, kernel,
                   ret, has>>

\* the next ray tested against the surface
NextRay ==
    /\ kpc = "done"
    /\ original_ray' \in KernelRays
    /\ kpc' = "start"
    /\ with' = <<>>
    /\ kernel' = None
    /\ ret' = None
    /\ has' = <<>>
    /\ at' = <<>>
    /\ UNCHANGED <<varsRender, varsTrace, varsCall, surface>>

NextKernel ==
    \/ TransformRay
    \/ CallKernel
    \/ FinishIntersection
    \/ HasIntersection
    \/ \E t \in -1..(MaxBound + 1) : EvalAt(t)
    \/ NextRay

SpecKernel == InitKernel /\ [][NextKernel]_vars

(***************************************************************************)
(* Claims about the kernels                                                *)
(***************************************************************************)
Returned == kpc \in {"returned", "tested", "done"}

InBounds(ray, t) == 0 <= t /\ (ray.max_t = INFINITY \/ t <= ray.max_t)

\* C6: Ray::at(t) is defined exactly when 0 <= t <= max_t (and is then
\* origin + t * direction), and every Intersection that
\* Surface::intersection(R) returns, for a sphere, a mesh or a Julia set,
\* with or without a transform, has 0 <= t <= R.max_t.
C6_HitWithinBounds ==
    /\ (Returned /\ IsSome(ret)) => InBounds(original_ray, Unwrap(ret).t)
    /\ kpc = "done" =>
           /\ IsSome(at.point) <=> InBounds(original_ray, at.t)
           /\ IsSome(at.point) =>
                  Unwrap(at.point) = VAdd(original_ray.origin,
                                          VScale(at.t, original_ray.direction))

\* A transformed Julia set is hit exactly at the bound of a bounded ray, and
\* Ray::at was evaluated inside the bounds.
C6_Witness ==
    /\ kpc = "done"
    /\ surface.obj.kind = "JuliaSet"
    /\ IsSome(surface.transform)
    /\ IsSome(ret)
    /\ original_ray.max_t # INFINITY
    /\ Unwrap(ret).t = original_ray.max_t
    /\ IsSome(at.point)
    /\ at.t > 0

\* C7: for a primary ray R (max_t infinite) Surface::intersection(R) is
\* defined exactly when the kernel reports a hit on the transformed ray,
\* returns the kernel's t and the point R.origin + t * R.direction of the
\* untransformed ray; the transformed ray keeps max_t and its direction is
\* the transformed direction, not renormalised.
C7_TransformEquivalence ==
    (Returned /\ original_ray.max_t = INFINITY) =>
        /\ IsSome(ret) <=> IsSome(kernel)
        /\ IsSome(ret) =>
               /\ Unwrap(ret).t = Unwrap(kernel).t
               /\ Unwrap(ret).point =
                      VAdd(original_ray.origin,
                           VScale(Unwrap(ret).t, original_ray.direction))
        /\ with.max_t = original_ray.max_t
        /\ IsSome(surface.transform) =>
               with.direction =
                   transform_vector(Unwrap(surface.transform).transform,
                                    original_ray.direction)

(***************************************************************************)
(* The recursive trace.  Lengths are in units of BIAS; a colour is a       *)
(* triple of integers; the scenes use Phong shading and solid textures.    *)
(***************************************************************************)
\* math/util.rs: pub const BIAS: f32 = 1e-4, the length unit.
BIAS == 1

\* math/util.rs smoothstep for an integer t and edges given as quotients:
\* the quotient x * x * (3 - 2 * x) with x clamped to [0, 1].
smoothstep(edge0, edge1, t) ==
    LET xn == (t * edge0[2] - edge0[1]) * edge1[2]
        xd == edge1[1] * edge0[2] - edge0[1] * edge1[2]
        x == FQuot(xn, xd)
        c == IF FLt(x, FNum(0)) THEN FNum(0)
             ELSE IF FGt(x, FNum(1)) THEN FNum(1) ELSE x
    IN  <<c[1] * c[1] * (3 * c[2] - 2 * c[1]), c[2] * c[2] * c[2]>>

(***************************************************************************)
(* objects/light.rs                                                        *)
(***************************************************************************)
Ambient(color) == [kind |-> "Ambient", color |-> color]

Parallel(color, direction) ==
    [kind |-> "Parallel", color |-> color, direction |-> direction]

Point(color, position) ==
    [kind |-> "Point", color |-> color, position |-> position]

\* falloff is the pair of cosines (cos alpha1, cos alpha2), each a quotient.
Spot(color, position, direction, falloff) ==
    [kind |-> "Spot", color |-> color, position |-> position,
     direction |-> direction, falloff |-> falloff]

\* The ray from `from` to a light at `position`, bounded by their distance.
RayToward(from, position) ==
    LET length == Length(VSub(position, from))
        direction == VDiv(VSub(position, from), length)
    IN  set_bounds(Ray_new(VAdd(from, VScale(BIAS, direction)), direction),
                   length)

\* Light::shadow_ray
shadow_ray(light, from) ==
    CASE light.kind = "Ambient" -> None
      [] light.kind = "Parallel" ->
            LET direction == VNeg(Normal(light.direction))
            IN  Some(Ray_new(VAdd(from, VScale(BIAS, direction)), direction))
      [] light.kind = "Point" -> Some(RayToward(from, light.position))
      [] light.kind = "Spot" ->
            LET r == RayToward(from, light.position)
                light_dir == VNeg(Normal(light.direction))
                limit == light.falloff[2]
            IN  IF FLt(FNum(Dot(light_dir, r.direction)), limit)
                THEN None
                ELSE Some(r)

(***************************************************************************)
(* objects/surface/material.rs                                             *)
(***************************************************************************)
\* Texture::get_color
Texture_get_color(texture, texel) == texture.color

\* f32::powf for an exponent that is a natural number: x^0 is 1 for every
\* x, 0 included.
powf(x, n) == IF n = 0 THEN 1 ELSE x ^ n

\* ShadingModel::phong_color
phong_color(kd, ks, exp, light_color, neg_light, vnormal, neg_veye, frag_color) ==
    LET l == Normal(neg_light)
        n == VNeg(Normal(vnormal))
        diffuse == VScale(kd * max(Dot(l, n), 0), VMul(light_color, frag_color))
        r == Reflect(l, n)
        e == VNeg(Normal(neg_veye))
        specular == VScale(ks * powf(max(Dot(e, r), 0), exp), light_color)
    IN  VAdd(diffuse, specular)

\* ShadingModel::shading_color
shading_color(shading, light_color, neg_light, vnormal, neg_veye, frag_color) ==
    CASE shading.kind = "Phong" ->
            phong_color(shading.kd, shading.ks, shading.exp, light_color,
                        neg_light, vnormal, neg_veye, frag_color)

\* A shading model without an ambient term.
ambient_Off(shading) == 0

\* ShadingModel::ambient
ambient(shading) == shading.ka

\* Material::get_color
Material_get_color(m, point, normal, light, texel, ray) ==
    LET frag == Texture_get_color(m.texture, texel)
    IN  CASE light.kind = "Ambient" ->
                VScale(ambient(m.shading), VMul(light.color, frag))
          [] light.kind = "Parallel" ->
                shading_color(m.shading, light.color, light.direction, normal,
                              ray.direction, frag)
          [] light.kind = "Point" ->
                shading_color(m.shading, light.color,
                              VSub(point, light.position), normal,
                              ray.direction, frag)
          [] light.kind = "Spot" ->
                LET dir == Normal(VSub(point, light.position))
                    dot_from_dir == Dot(dir, Normal(light.direction))
                    in_light == smoothstep(light.falloff[2], light.falloff[1],
                                           dot_from_dir)
                IN  IF in_light[1] = 0 THEN VZero
                    ELSE VDiv(VScale(in_light[1],
                                     shading_color(m.shading, light.color, dir,
                                                   normal, ray.direction,
                                                   frag)),
                              in_light[2])

(***************************************************************************)
(* objects/surface/intersection.rs                                         *)
(***************************************************************************)
\* Intersection::get_color
Intersection_get_color(hit, light, ray) ==
    Material_get_color(hit.material, hit.point, hit.normal, light, hit.texel,
                       ray)

\* A ray that goes on in the direction it came in.
reflected_ray_Straight(hit, ray) ==
    Ray_new(VAdd(hit.point, VScale(BIAS, ray.direction)), ray.direction)

\* Intersection::reflected_ray
reflected_ray(hit, ray) ==
    LET dir == Reflect(ray.direction, hit.normal)
    IN  Ray_new(VAdd(hit.point, VScale(BIAS, dir)), dir)

\* The discriminant of Intersection::refracted_ray times the square of the
\* denominator q of n1_nt = p / q:  q^2 - p^2 * (1 - n_dot_v^2).
refraction_discr(hit, ray) ==
    LET n_dot_v == Dot(hit.normal, ray.direction)
        eta == hit.material.refraction
        p == IF n_dot_v < 0 THEN eta[2] ELSE eta[1]
        q == IF n_dot_v < 0 THEN eta[1] ELSE eta[2]
    IN  q * q - p * p * (1 - n_dot_v * n_dot_v)

\* Intersection::refracted_ray
refracted_ray(hit, ray) ==
    LET v == ray.direction
        dot0 == Dot(hit.normal, v)
        outside == dot0 < 0
        n_dot_v == IF outside THEN -dot0 ELSE dot0
        n == IF outside THEN hit.normal ELSE VNeg(hit.normal)
        eta == hit.material.refraction
        p == IF outside THEN eta[2] ELSE eta[1]
        q == IF outside THEN eta[1] ELSE eta[2]
        discr == refraction_discr(hit, ray)
    IN  IF discr < 0 THEN None
        ELSE LET t == VDiv(VSub(VScale(p, VAdd(v, VScale(n_dot_v, n))),
                                VScale(Sqrt(discr), n)), q)
             IN  Some(Ray_new(VAdd(hit.point, VScale(BIAS, t)), t))

(***************************************************************************)
(* objects/scene.rs                                                        *)
(***************************************************************************)
\* Scene::intersects_any
intersects_any(sc, ray) ==
    \E i \in 1..Len(sc.surfaces) : Surface_has_intersection(sc.surfaces[i], ray)

\* Scene::closest_intersection returning the first surface hit in the list.
closest_intersection_First(sc, w) ==
    LET hits == Flatten([i \in 1..Len(sc.surfaces) |->
                            Surface_intersection(sc.surfaces[i], w)])
    IN  IF hits = <<>> THEN None ELSE Some(hits[1])

\* Scene::closest_intersection
closest_intersection(sc, w) ==
    MinByT(Flatten([i \in 1..Len(sc.surfaces) |->
                       Surface_intersection(sc.surfaces[i], w)]))

\* The filter of Scene::intersection_color with the shadow test left out.
in_line_of_sight_Unshadowed(sc, light, point) == TRUE

\* The filter of Scene::intersection_color:
\* light.shadow_ray(&point).is_none_or(|ray| !self.intersects_any(&ray))
in_line_of_sight(sc, light, point) ==
    LET r == shadow_ray(light, point)
    IN  r = None \/ ~intersects_any(sc, Unwrap(r))

\* reduce(|lhs, rhs| lhs + rhs).unwrap_or(Color::zero())
RECURSIVE SumColors(_)
SumColors(cs) ==
    IF cs = <<>> THEN VZero ELSE VAdd(Head(cs), SumColors(Tail(cs)))

\* Scene::intersection_color
intersection_color(sc, hit, ray) ==
    LET lit(l) == in_line_of_sight(sc, l, hit.point)
        seen == SelectSeq(sc.lights, lit)
    IN  SumColors([i \in 1..Len(seen) |->
                      Intersection_get_color(hit, seen[i], ray)])

\* The last expression of Scene::recursive_trace without the clamp.
combine_Unclamped(color, reflected_color, refracted_color, r, tau) ==
    VDiv(VAdd(VAdd(VScale(4 - r - tau, color), VScale(r, reflected_color)),
              VScale(tau, refracted_color)), 4)

\* The last expression of Scene::recursive_trace (r and tau in quarters):
\* color * max(1 - r - tau, 0) + reflected_color * r + refracted_color * tau
combine(color, reflected_color, refracted_color, r, tau) ==
    VDiv(VAdd(VAdd(VScale(max(4 - r - tau, 0), color),
                   VScale(r, reflected_color)),
              VScale(tau, refracted_color)), 4)

\* The depth of a nested call that is not decreased.
nested_depth_Same(depth) == depth

\* The depth argument of a nested call: depth - 1
nested_depth(depth) == depth - 1

\* An activation of recursive_trace at its entry.  ray is an Option: the
\* call for the refracted ray is handed what refracted_ray returned.
Activation(ray, depth) ==
    [ray |-> ray, depth |-> depth, pc |-> "enter", hit |-> None,
     color |-> VZero, reflected_color |-> VZero, refracted_color |-> VZero,
     nested |-> <<>>, tir |-> FALSE]

Top == stack[Len(stack)]

\* The caller continues with the colour its nested call returned.
Resume(caller, value, tir) ==
    IF caller.pc = "reflected"
    THEN [caller EXCEPT !.reflected_color = value, !.pc = "refract",
                        !.tir = @ \/ tir]
    ELSE [caller EXCEPT !.refracted_color = value, !.pc = "combine",
                        !.tir = @ \/ tir]

\* The innermost activation, in the state act, returns value.
Return(act, value) ==
    LET callers == SubSeq(stack, 1, Len(stack) - 1)
    IN  /\ log' = log \cup {[ray |-> act.ray, depth |-> act.depth,
                             hit |-> act.hit, color |-> act.color,
                             reflected_color |-> act.reflected_color,
                             refracted_color |-> act.refracted_color,
                             nested |-> act.nested, tir |-> act.tir,
                             level |-> Len(stack), ret |-> value]}
        /\ IF callers = <<>>
           THEN stack' = <<>> /\ result' = Some(value)
           ELSE /\ stack' = [callers EXCEPT
                                ![Len(callers)] = Resume(@, value, act.tir)]
                /\ result' = result
        /\ UNCHANGED <<varsRender, varsKernel, varsCall, scene>>


(***************************************************************************)
(* The scenes traced.  Every length is a multiple of BIAS and every light  *)
(* and background colour a multiple of 256, so that the quarters of the    *)
(* weights divide exactly down to the deepest bounce.                      *)
(***************************************************************************)
MaxBounces == 3

White == <<1, 1, 1>>
Shine == Phong(1, 1, 1, 2)

MatteRed == Material_new(Texture_Color(<<1, 0, 0>>), 0, 0, <<1, 1>>, Shine)
Mirror == Material_new(Texture_Color(White), 4, 0, <<1, 1>>, Shine)
HalfMirror == Material_new(Texture_Color(<<0, 1, 0>>), 2, 0, <<1, 1>>, Shine)
Glass == Material_new(Texture_Color(White), 1, 1, <<3, 2>>, Shine)
ClearGlass == Material_new(Texture_Color(<<0, 0, 1>>), 0, 2, <<1, 1>>, Shine)
Saturated == Material_new(Texture_Color(White), 4, 2, <<3, 2>>, Shine)

\* A wall in the plane z = -12 facing the camera.
Wall(material) ==
    Surface_new(Mesh_new(<<Triangle_new(
                    <<<<-20, -20, -12>>, <<20, -20, -12>>, <<0, 20, -12>>>>,
                    Facing, NoTexCoords)>>), None, material)

\* A wall in the plane z = 12 behind the camera, facing the first wall.
BackWall(material) ==
    Surface_new(Mesh_new(<<Triangle_new(
                    <<<<-20, -20, 12>>, <<20, -20, 12>>, <<0, 20, 12>>>>,
                    <<<<0, 0, -1>>, <<0, 0, -1>>, <<0, 0, -1>>>>,
                    NoTexCoords)>>), None, material)

Ball(z, material) == Surface_new(Sphere_new(<<0, 0, z>>, 2), None, material)

Daylight == Ambient(<<256, 256, 256>>)
Headlight == Parallel(<<256, 256, 256>>, <<0, 0, -1>>)
Skylight == Parallel(<<256, 0, 256>>, <<0, -1, 0>>)
Lamp == Point(<<512, 512, 0>>, <<0, 0, 0>>)
FarLamp == Point(<<0, 0, 1024>>, <<0, 0, 8>>)
SpotOn == Spot(<<0, 256, 256>>, <<0, 0, 0>>, <<0, 0, -1>>,
               <<<<1, 1>>, <<1, 2>>>>)
SpotOff == Spot(<<0, 256, 256>>, <<0, 0, 0>>, <<0, 0, 1>>,
                <<<<1, 1>>, <<1, 2>>>>)

Sky == <<256, 512, 768>>

\* Color::to_rgb with a colour component of 1.0 kept as 256:
\* (255.999 * x.clamp(0.0, 1.0)) as u8
to_rgb(c) ==
    [i \in 1..3 |-> (255999 * max(min(c[i], 256), 0)) \div 256000]

\* The rays Camera::get_ray_through yields: straight ahead from (x, 0, 0).
Ahead(xs) == {Ray_new(<<x, 0, 0>>, <<0, 0, -1>>) : x \in xs}

Scene_new(surfs, lights, bounces, rays) ==
    [surfaces |-> surfs, lights |-> lights, background_color |-> Sky,
     max_bounces |-> bounces, camera_rays |-> rays]

Scenes ==
    UNION {
      { \* two facing mirrors, the camera between them
        Scene_new(<<Ball(6, Mirror), Ball(-6, m)>>,
                  <<Daylight, Headlight, Skylight>>, b,
                  Ahead({0, 2, 5})) : m \in {Mirror, HalfMirror} }
      \cup
      { \* a wall behind a ball of glass, the wall first in the list
        Scene_new(<<Wall(MatteRed), Ball(-6, m)>>,
                  <<Daylight, Headlight>>, b,
                  Ahead({0, 2, 5})) :
            m \in {Glass, ClearGlass, Saturated, MatteRed} }
      \cup
      { \* point and spot lights at the camera and behind it
        Scene_new(<<Ball(-6, HalfMirror), Wall(MatteRed), Ball(4, m)>>,
                  <<Lamp, FarLamp, SpotOn, SpotOff>>, b, Ahead({0})) :
            m \in {MatteRed, Glass} }
      \cup
      { \* two spheres on the axis of a point light at the camera
        Scene_new(<<Ball(-6, m), Ball(-14, MatteRed)>>, <<Lamp>>, b,
                  Ahead({0})) : m \in {ClearGlass, Glass} }
      \cup
      { \* two parallel facing mirrors of reflectance 1
        Scene_new(<<Wall(Mirror), BackWall(Mirror)>>,
                  <<Daylight, Headlight>>, b, Ahead({0, 2})) }
      \cup
      { \* a sphere under a single ambient light of colour (1, 1, 1)
        Scene_new(<<Ball(-6, m)>>, <<Daylight>>, b, Ahead({0, 5})) :
            m \in {MatteRed, HalfMirror, Mirror, Glass} }
      \cup
      { \* no light at all
        Scene_new(<<Ball(-6, HalfMirror)>>, <<>>, b, Ahead({0, 5})) }
      : b \in 0..MaxBounces }

(***************************************************************************)
(* Scene::trace_pixel and Scene::recursive_trace, step by step             *)
(***************************************************************************)
InitTrace ==
    /\ RenderIdle
    /\ KernelIdle
    /\ CallIdle
    /\ scene \in Scenes
    /\ stack = <<>>
    /\ result = None
    /\ log = {}

\* trace_pixel: self.recursive_trace(&ray, self.camera.get_max_bounces())
TracePrimary ==
    /\ stack = <<>>
    /\ \E ray \in scene.camera_rays :
           stack' = <<Activation(Some(ray), scene.max_bounces)>>
    /\ result' = None
    /\ log' = {}
    /\ UNCHANGED <<varsRender, varsKernel, varsCall, scene>>

\* match self.closest_intersection(ray), the local colour, the depth test
Enter ==
    /\ stack # <<>>
    /\ Top.pc = "enter"
    /\ IsSome(Top.ray)
    /\ LET ray == Unwrap(Top.ray)
           hit == closest_intersection(scene, ray)
       IN  IF hit = None
           THEN Return(Top, scene.background_color)
           ELSE LET color == intersection_color(scene, Unwrap(hit), ray)
                    act == [Top EXCEPT !.hit = hit, !.color = color]
                IN  IF Top.depth = 0
                    THEN Return(act, color)
                    ELSE /\ stack' = [stack EXCEPT
                                         ![Len(stack)] =
                                             [act EXCEPT !.pc = "reflect"]]
                         /\ UNCHANGED <<varsRender, varsKernel, varsCall, scene, result,
                                        log>>

\* recursive_trace entered with the None that refracted_ray returned: the
\* source does not say what is traced then; the call yields some colour.
EnterAbsent ==
    /\ stack # <<>>
    /\ Top.pc = "enter"
    /\ Top.ray = None
    /\ \E c \in {VZero, scene.background_color} : Return(Top, c)

\* if intersection.get_reflectance() > 0. { .. recursive_trace(..) }
ReflectStep ==
    /\ stack # <<>>
    /\ Top.pc = "reflect"
    /\ LET hit == Unwrap(Top.hit)
           ray == Some(reflected_ray(hit, Unwrap(Top.ray)))
           depth == nested_depth(Top.depth)
       IN  IF hit.material.reflectance > 0
           THEN stack' = Append(
                    [stack EXCEPT ![Len(stack)] =
                        [@ EXCEPT !.pc = "reflected",
                                  !.nested = Append(@, <<"reflected", ray,
                                                         depth>>)]],
                    Activation(ray, depth))
           ELSE stack' = [stack EXCEPT ![Len(stack)].pc = "refract"]
    /\ UNCHANGED <<varsRender, varsKernel, varsCall, scene, result, log>>

\* if intersection.get_transmittance() > 0. { .. recursive_trace(..) }
RefractStep ==
    /\ stack # <<>>
    /\ Top.pc = "refract"
    /\ LET hit == Unwrap(Top.hit)
           ray == refracted_ray(hit, Unwrap(Top.ray))
           depth == nested_depth(Top.depth)
       IN  IF hit.material.transmittance > 0
           THEN stack' = Append(
                    [stack EXCEPT ![Len(stack)] =
                        [@ EXCEPT !.pc = "refracted",
                                  !.tir = @ \/ ray = None,
                                  !.nested = Append(@, <<"refracted", ray,
                                                         depth>>)]],
                    Activation(ray, depth))
           ELSE stack' = [stack EXCEPT ![Len(stack)].pc = "combine"]
    /\ UNCHANGED <<varsRender, varsKernel, varsCall, scene, result, log>>

\* color * max(1 - r - t, 0) + reflected_color * r + refracted_color * t
Combine ==
    /\ stack # <<>>
    /\ Top.pc = "combine"
    /\ LET m == Unwrap(Top.hit).material
       IN  Return(Top, combine(Top.color, Top.reflected_color,
                               Top.refracted_color, m.reflectance,
                               m.transmittance))

NextTrace ==
    \/ TracePrimary
    \/ Enter
    \/ EnterAbsent
    \/ ReflectStep
    \/ RefractStep
    \/ Combine

SpecTrace == InitTrace /\ [][NextTrace]_vars

(***************************************************************************)
(* Properties of Scene::recursive_trace.  log holds one record for every   *)
(* activation that has returned: its arguments, what it computed, the      *)
(* nested calls it made and the colour it returned.                        *)
(***************************************************************************)
Reflectance(a) == Unwrap(a.hit).material.reflectance
Transmittance(a) == Unwrap(a.hit).material.transmittance

\* The colours returned by the nested calls of a for the ray nested.
NestedReturns(a, nested) ==
    {b.ret : b \in {c \in log : /\ c.ray = nested
                                /\ c.depth = a.depth - 1
                                /\ c.level = a.level + 1}}

\* local * max(1 - r - tau, 0) + refl * r + refr * tau, weights in quarters
Weighted(local, refl, refr, r, tau) ==
    VDiv(VAdd(VAdd(VScale(IF 4 - r - tau > 0 THEN 4 - r - tau ELSE 0, local),
                   VScale(r, refl)), VScale(tau, refr)), 4)

\* The colour of a ray that hits nothing, of a hit at depth 0 and of a hit
\* at a depth above 0, computed top-down as the recursion is described.
RECURSIVE TraceSpec(_, _)
TraceSpec(ray, depth) ==
    LET found == closest_intersection(scene, ray)
    IN  IF found = None THEN scene.background_color
        ELSE LET hit == Unwrap(found)
                 local == intersection_color(scene, hit, ray)
                 r == hit.material.reflectance
                 tau == hit.material.transmittance
             IN  IF depth = 0 THEN local
                 ELSE Weighted(
                        local,
                        IF r > 0
                        THEN TraceSpec(reflected_ray(hit, ray), depth - 1)
                        ELSE VZero,
                        IF tau > 0
                        THEN TraceSpec(Unwrap(refracted_ray(hit, ray)),
                                       depth - 1)
                        ELSE VZero,
                        r, tau)

C2_DepthDecreases ==
    /\ Len(stack) <= scene.max_bounces + 1
    /\ \A i \in 1..Len(stack) :
          /\ stack[i].depth = scene.max_bounces - (i - 1)
          /\ stack[i].depth = 0 => stack[i].pc = "enter" /\ i = Len(stack)
    /\ \A a \in log :
          /\ a.depth = scene.max_bounces - (a.level - 1)
          /\ a.level <= scene.max_bounces + 1
          /\ \A j \in 1..Len(a.nested) : a.nested[j][3] = a.depth - 1
          /\ (a.depth = 0 /\ IsSome(a.hit)) =>
                a.nested = <<>> /\ a.ret = a.color

\* Between two mirrors of reflectance 1 the chain has reached its greatest
\* length and the innermost call has returned its local colour.
C2_Witness ==
    /\ scene.max_bounces = MaxBounces
    /\ \A i \in 1..Len(scene.surfaces) :
          scene.surfaces[i].material.reflectance = 4
    /\ Len(stack) = MaxBounces
    /\ \E a \in log :
          /\ a.level = MaxBounces + 1 /\ a.depth = 0
          /\ IsSome(a.hit) /\ a.nested = <<>> /\ a.ret = a.color

\* What Surface::intersection returns for ray, surface by surface.
HitsOf(ray) ==
    {Surface_intersection(scene.surfaces[i], ray) :
        i \in 1..Len(scene.surfaces)} \ {None}

\* C3: closest_intersection returns none exactly when no surface's
\* intersection with the ray is defined, and otherwise one of the
\* intersections, with t less than or equal to the t of every other one.
C3_ClosestIsNearest ==
    \A a \in log :
        IsSome(a.ray) =>
            LET hits == HitsOf(Unwrap(a.ray))
            IN  /\ a.hit = None <=> hits = {}
                /\ a.hit # None =>
                      /\ a.hit \in hits
                      /\ \A h \in hits : Unwrap(a.hit).t <= Unwrap(h).t

\* A ray returned the hit of a later surface of the list although the first
\* surface is hit as well, farther away, and a nested ray of it hit nothing.
C3_Witness ==
    /\ \E a \in log :
          /\ IsSome(a.ray) /\ IsSome(a.hit)
          /\ LET first == Surface_intersection(scene.surfaces[1],
                                               Unwrap(a.ray))
             IN  IsSome(first) /\ Unwrap(first).t > Unwrap(a.hit).t
    /\ \E b \in log : IsSome(b.ray) /\ b.hit = None /\ HitsOf(Unwrap(b.ray)) = {}

\* A light is visible from point: an ambient light always, any other light
\* when its shadow ray from point intersects no surface of the scene.
Visible(light, point) ==
    \/ light.kind = "Ambient"
    \/ LET r == shadow_ray(light, point)
       IN  \/ r = None
           \/ \A i \in 1..Len(scene.surfaces) :
                  ~Surface_has_intersection(scene.surfaces[i], Unwrap(r))

\* The contributions of the lights visible from the hit, added up.
VisibleSum(hit, ray) ==
    SumColors([i \in 1..Len(scene.lights) |->
                 IF Visible(scene.lights[i], hit.point)
                 THEN Intersection_get_color(hit, scene.lights[i], ray)
                 ELSE VZero])

\* C4: the local colour of a hit is the sum of the contributions of exactly
\* the lights visible from it (an ambient light always, any other light iff
\* its shadow ray intersects no surface); a light whose shadow ray
\* intersects a surface adds nothing, and a hit with no visible light is
\* black.
C4_LightIffVisible ==
    \A a \in log :
        IsSome(a.hit) =>
            LET hit == Unwrap(a.hit)
                ray == Unwrap(a.ray)
            IN  /\ a.color = VisibleSum(hit, ray)
                /\ (\A i \in 1..Len(scene.lights) :
                       ~Visible(scene.lights[i], hit.point))
                       => a.color = VZero

\* A hit is lit by one light while the shadow ray of another light, which
\* would have lit it too, intersects a surface.
C4_Witness ==
    \E a \in log :
        /\ IsSome(a.hit)
        /\ a.color # VZero
        /\ \E i, j \in 1..Len(scene.lights) :
              LET hit == Unwrap(a.hit)
                  ray == Unwrap(a.ray)
                  li == scene.lights[i]
                  lj == scene.lights[j]
              IN  /\ li.kind # "Ambient" /\ lj.kind # "Ambient"
                  /\ Visible(li, hit.point)
                  /\ Intersection_get_color(hit, li, ray) # VZero
                  /\ ~Visible(lj, hit.point)
                  /\ Intersection_get_color(hit, lj, ray) # VZero

\* k = 1 - eta'^2 * (1 - c1^2) is negative, with eta' = 1/eta when the ray
\* enters and eta when it leaves (k times the square of the denominator).
KNegative(hit, ray) ==
    LET c == Dot(hit.normal, ray.direction)
        entering == c < 0
        eta == hit.material.refraction
        num == IF entering THEN eta[2] ELSE eta[1]
        den == IF entering THEN eta[1] ELSE eta[2]
    IN  den * den - num * num * (1 - c * c) < 0

\* C5: refracted_ray yields no ray exactly when k < 0, and then
\* recursive_trace spawns no refracted ray, the refracted contribution is
\* zero and the result is local * max(1 - r - tau, 0) + refl * r.
C5_TotalInternalReflection ==
    \A a \in log :
        (IsSome(a.ray) /\ IsSome(a.hit) /\ a.depth > 0
            /\ Transmittance(a) > 0) =>
            LET hit == Unwrap(a.hit)
                ray == Unwrap(a.ray)
            IN  /\ refracted_ray(hit, ray) = None <=> KNegative(hit, ray)
                /\ KNegative(hit, ray) =>
                      /\ \A j \in 1..Len(a.nested) :
                            a.nested[j][1] # "refracted"
                      /\ a.refracted_color = VZero
                      /\ a.ret = Weighted(a.color, a.reflected_color, VZero,
                                          Reflectance(a), Transmittance(a))

(***************************************************************************)
(* Further properties of the render driver                                 *)
(***************************************************************************)
\* The pixel indices of the image: [0, width) x [0, height).
PixelIndices == (0..(cfg.width - 1)) \X (0..(cfg.height - 1))

\* C11: for every frame the render driver calls trace_pixel(u, v) only with
\* 0 <= u < width and 0 <= v < height, and once a frame is complete every
\* such pair (u, v) has been traced exactly once for it.
C11_EveryPixelIndexOnce ==
    /\ \A w \in 1..NumWorkers :
          workers[w].pc = "send" =>
              <<workers[w].ret.u, workers[w].ret.v>> \in PixelIndices
    /\ pc = "next_frame" =>
          \A uv \in PixelIndices :
              Cardinality({i \in Cells : /\ img[frame][i].u = uv[1]
                                         /\ img[frame][i].v = uv[2]}) = 1

\* C12: pixel independence: whatever the order and interleaving in which
\* the workers evaluated the cells, the stored frame holds for every cell
\* the trace of that cell's own coordinates against the scene of that
\* frame, so it is the same image for every schedule.
C12_PixelIndependence ==
    pc = "next_frame" =>
        \A i \in Cells :
            img[frame][i] = trace_pixel(coords[i][1],
                                        cfg.height - coords[i][2])

\* A later frame of several cells, evaluated by concurrent workers, is
\* stored.
C12_Witness ==
    /\ pc = "next_frame"
    /\ frame >= 1
    /\ NumCells > NumWorkers
    /\ \A i \in Cells : img[frame][i] # Black
    /\ img[frame] # img[frame - 1]

\* C13: with the progress bar enabled the printer thread exits for every
\* loaded scene (zero frames and zero pixels included), so the join of the
\* main thread returns: whenever the main thread waits in join, the printer
\* thread has exited or still has a message to receive, and is never left
\* blocked in recv on a channel that stays open and empty.
C13_PrinterExits ==
    (pc = "join" /\ cfg.progress_bar) =>
        (printer.pc = "exited" \/ chan > 0)

\* The steps of the main thread and of the workers up to the join.
RenderStep ==
    \/ ParInitStart
    \/ LoopExit
    \/ \E w \in 1..NumWorkers : WorkerTake(w) \/ WorkerTrace(w) \/ WorkerSend(w)
    \/ ParDone
    \/ NextFrame

\* C14: progress reporting never blocks or aborts the renderer: a worker's
\* send can always return, whether the printer thread is slow, absent or
\* has exited and dropped the receiver; the render loop can always take its
\* next step, and when it is over every pixel of every frame is stored.
C14_SendNeverBlocks ==
    /\ \A w \in 1..NumWorkers :
          workers[w].pc = "send" => ENABLED WorkerSend(w)
    /\ pc \in {"loop", "par", "next_frame"} => ENABLED RenderStep
    /\ pc \in {"join", "save", "done"} =>
          /\ frame = cfg.frames
          /\ \A f \in 0..(cfg.frames - 1) : \A i \in Cells : img[f][i] # Black

\* The render loop is over with every frame stored although the printer
\* thread had exited before the last pixel-done messages were sent.
C14_Witness ==
    /\ pc = "join"
    /\ cfg.progress_bar
    /\ cfg.frames >= 2
    /\ NumCells >= 2
    /\ printer.pc = "exited"
    /\ chan < NumCells
    /\ \A f \in 0..(cfg.frames - 1) : \A i \in Cells : img[f][i] # Black

(***************************************************************************)
(* Scenarios of the trace                                                  *)
(***************************************************************************)
\* Two spheres on a common axis and one point light on that axis above them.
ShadowScenario ==
    /\ Len(scene.surfaces) = 2
    /\ \A k \in 1..2 : scene.surfaces[k].obj.kind = "Sphere"
    /\ Len(scene.lights) = 1
    /\ scene.lights[1].kind = "Point"

\* The hit point lies on the sphere k.
OnSphere(point, k) ==
    LET s == scene.surfaces[k].obj
    IN  LengthSquared(VSub(point, s.center)) = s.radius * s.radius

\* The sphere k is the one closer to the light.
CloserToLight(k) ==
    \A j \in 1..2 :
        LengthSquared(VSub(scene.lights[1].position,
                           scene.surfaces[k].obj.center))
          <= LengthSquared(VSub(scene.lights[1].position,
                                scene.surfaces[j].obj.center))

\* C15: in the shadow scenario the shadow ray from the lit pole of the
\* sphere closer to the light intersects no surface (intersects_any is
\* false), and the shadow ray from a point on the back side of a sphere,
\* facing away from the light, is occluded by that same sphere
\* (intersects_any is true).
C15_ShadowScenario ==
    ShadowScenario =>
        \A a \in log : \A k \in 1..2 :
            (IsSome(a.hit) /\ OnSphere(Unwrap(a.hit).point, k)) =>
                LET point == Unwrap(a.hit).point
                    light == scene.lights[1]
                    out == VSub(point, scene.surfaces[k].obj.center)
                    toward == VSub(light.position, point)
                    shadow == Unwrap(shadow_ray(light, point))
                IN  /\ (CloserToLight(k) /\ Cross(out, toward) = VZero
                           /\ Dot(out, toward) > 0)
                          => ~intersects_any(scene, shadow)
                    /\ Dot(out, toward) < 0 =>
                          /\ Surface_has_intersection(scene.surfaces[k],
                                                      shadow)
                          /\ intersects_any(scene, shadow)

\* Two parallel facing mirrors of reflectance 1 and nothing else.
MirrorScenario ==
    /\ Len(scene.surfaces) = 2
    /\ \A k \in 1..2 :
          /\ scene.surfaces[k].obj.kind = "Mesh"
          /\ scene.surfaces[k].material.reflectance = 4
          /\ scene.surfaces[k].material.transmittance = 0

\* The returned activations at nesting level n of the finished trace.
AtLevel(n) == {a \in log : a.level = n}

\* C16 (as stated): between two parallel facing mirrors of reflectance 1
\* the trace with max_bounces = 3 returns the background colour after 3
\* bounces, and the trace with max_bounces = 0 returns only the local
\* shading of the first hit.
C16_MirrorScenario ==
    (MirrorScenario /\ IsSome(result)) =>
        /\ scene.max_bounces = 3 =>
              /\ Unwrap(result) = scene.background_color
              /\ \A n \in 1..3 : \E a \in AtLevel(n) : IsSome(a.hit)
        /\ scene.max_bounces = 0 =>
              \E a \in AtLevel(1) :
                  /\ IsSome(a.hit)
                  /\ Unwrap(result) =
                        intersection_color(scene, Unwrap(a.hit),
                                           Unwrap(a.ray))

\* C16 (amended): between two parallel facing mirrors of reflectance 1 the
\* trace with max_bounces = 3 ends after 3 bounces and returns the local
\* shading of the fourth hit, the one the call at depth 0 finds (the
\* background colour only if that call's ray hits nothing), and the trace
\* with max_bounces = 0 returns only the local shading of the first hit.
C16_MirrorReturnsLastLocal ==
    (MirrorScenario /\ IsSome(result)) =>
        /\ scene.max_bounces = 3 =>
              /\ \A n \in 1..3 : \E a \in AtLevel(n) :
                    IsSome(a.hit) /\ Len(a.nested) = 1
              /\ AtLevel(5) = {}
              /\ \E a \in AtLevel(4) :
                    /\ a.depth = 0
                    /\ a.ret = IF IsSome(a.hit)
                               THEN intersection_color(scene, Unwrap(a.hit),
                                                       Unwrap(a.ray))
                               ELSE scene.background_color
                    /\ Unwrap(result) = a.ret
        /\ scene.max_bounces = 0 =>
              /\ AtLevel(2) = {}
              /\ \E a \in AtLevel(1) :
                    /\ IsSome(a.hit)
                    /\ Unwrap(result) =
                          intersection_color(scene, Unwrap(a.hit),
                                             Unwrap(a.ray))

\* The trace between the mirrors with max_bounces = 3 has returned the
\* lit local colour of its fourth hit, which is not the background colour.
C16_Witness ==
    /\ MirrorScenario
    /\ scene.max_bounces = 3
    /\ IsSome(result)
    /\ Unwrap(result) # scene.background_color
    /\ Unwrap(result) # VZero
    /\ \E a \in AtLevel(4) : IsSome(a.hit) /\ Unwrap(result) = a.color

\* The only light of the scene is an ambient light of colour (1, 1, 1).
AmbientScenario == scene.lights = <<Ambient(<<256, 256, 256>>)>>

\* The finished trace of a primary ray that hit a sphere: its activation.
PrimaryHits ==
    {a \in AtLevel(1) : /\ IsSome(result)
                        /\ IsSome(a.hit)
                        /\ \E k \in 1..Len(scene.surfaces) :
                              /\ scene.surfaces[k].obj.kind = "Sphere"
                              /\ OnSphere(Unwrap(a.hit).point, k)}

\* (k * x, k * y, k * z) for the texture (x, y, z) and ka = k of a material.
AmbientOnly(material) ==
    VScale(256 * material.shading.ka, material.texture.color)

\* C17 (as stated): under a single ambient light (1,1,1), for every sphere
\* with solid texture (x,y,z) and ka = k, whatever its reflectance and
\* transmittance and the max_bounces of the camera, the pixel of a primary
\* ray that hits the sphere is (k*x, k*y, k*z) up to 8-bit quantisation.
C17_AmbientOnly ==
    AmbientScenario =>
        \A a \in PrimaryHits :
            to_rgb(Unwrap(result)) =
                to_rgb(AmbientOnly(Unwrap(a.hit).material))

\* C17 (amended): under a single ambient light (1,1,1) the pixel of a
\* primary ray that hits a sphere with texture (x,y,z) and ka = k is
\* (k*x, k*y, k*z) up to 8-bit quantisation when max_bounces = 0 or the
\* sphere has reflectance 0 and transmittance 0; otherwise it is
\* (k*x, k*y, k*z) * max(1 - r - tau, 0) + refl * r + refr * tau.
C17_AmbientOnlyOpaque ==
    AmbientScenario =>
        \A a \in PrimaryHits :
            LET m == Unwrap(a.hit).material
            IN  IF scene.max_bounces = 0
                   \/ (m.reflectance = 0 /\ m.transmittance = 0)
                THEN to_rgb(Unwrap(result)) = to_rgb(AmbientOnly(m))
                ELSE Unwrap(result) =
                        Weighted(AmbientOnly(m), a.reflected_color,
                                 a.refracted_color, m.reflectance,
                                 m.transmittance)

\* Under the ambient light an opaque sphere has been traced with
\* max_bounces > 0 and its pixel is the ambient colour of its texture.
C17_Witness ==
    /\ AmbientScenario
    /\ scene.max_bounces > 0
    /\ \E a \in PrimaryHits :
          /\ Unwrap(a.hit).material.reflectance = 0
          /\ Unwrap(a.hit).material.transmittance = 0
          /\ to_rgb(Unwrap(result)) = <<255, 0, 0>>


(***************************************************************************)
(* Calls of library functions.  Each action is one call of one function    *)
(* with arguments drawn from a bounded set; the function is an operator    *)
(* that computes what the code computes.                                   *)
(***************************************************************************)

\* Result<T, InputError>
Ok(v) == [ok |-> TRUE, value |-> v]
Err(msg) == [ok |-> FALSE, error |-> msg]

\* A panic of the called function (Option::unwrap on None, Option::expect).
Panic(msg) == [panic |-> msg]

\* <phong ka kd ks exponent/> of a scene document.
SerialPhong(ka, kd, ks, exp) == [tag |-> "phong", ka |-> ka, kd |-> kd, ks |-> ks, exp |-> exp]

\* From<SerialShadingModel> for ShadingModel, the Phong arm.
ShadingModel_from(value) == Phong(value.ka, value.kd, value.ks, value.exp)

\* <material_solid> of a scene document: the colour, the shading element and
\* the reflectance, transmittance (quarters) and refraction elements.
MaterialSolid(color, shading, r, t, iof) == [color |-> color, shading |-> shading, reflectance |-> [r |-> r], transmittance |-> [t |-> t], refraction |-> [iof |-> iof]]

Material_from_Clamped(inp) == Material_new(Texture_Color(inp.color), inp.reflectance.r, min(inp.transmittance.t, max(4 - inp.reflectance.r, 0)), inp.refraction.iof, ShadingModel_from(inp.shading))

\* From<MaterialSolid> for Material: the five values of the document are
\* handed to Material::new as they are.
Material_from(inp) == Material_new(Texture_Color(inp.color), inp.reflectance.r, inp.transmittance.t, inp.refraction.iof, ShadingModel_from(inp.shading))

\* <sphere radius> of a scene document with its position and, perhaps, a
\* solid material (no textured material, no transform, no end state).
SerialSphere(radius, position, material_solid) == [radius |-> radius, position |-> position, material_solid |-> material_solid]

\* SerialSurface::convert_to_surface, the Sphere arm: the only error is a
\* sphere without a material.
convert_to_surface(serial) ==
    IF IsSome(serial.material_solid)
    THEN Ok(Surface_new(Sphere_new(serial.position, serial.radius), None, Material_from(Unwrap(serial.material_solid))))
    ELSE Err("No material was given.")

\* The largest reflectance or transmittance of a document, in quarters.
MaxWeight == 6

\* The sphere elements the calls are made with: the weights of the
\* material range over negative values, [0, 1] and values above 1.
SerialSpheres ==
    {SerialSphere(2, <<0, 0, -6>>, None)}
    \cup {SerialSphere(2, <<0, 0, -6>>, Some(MaterialSolid(c, SerialPhong(1, 1, 1, 2), r, t, iof))) : c \in {<<1, 0, 0>>, <<1, 1, 1>>}, r \in -1..MaxWeight, t \in -1..MaxWeight, iof \in {<<1, 1>>, <<3, 2>>}}

\* serial.convert_to_surface(path), as SerialScene::convert_to_scene calls
\* it for each surface of the document.
CallConvertToSurface(serial) ==
    /\ call.fn = "none"
    /\ call' = [fn |-> "convert_to_surface", args |-> <<serial>>]
    /\ outcome' = convert_to_surface(serial)
    /\ UNCHANGED <<varsRender, varsKernel, varsTrace>>

\* An Image as Image::load_png builds it for a texture: one frame of
\* width * height pixels in row order.  The pixel at index i is (i, i, i),
\* so that every pixel of the image is told apart.
Image_load_png(width, height) == [width |-> width, height |-> height, buf |-> <<[i \in 1..(width * height) |-> <<i - 1, i - 1, i - 1>>]>>]

\* The largest width and height of a texture.
MaxTexture == 3

Textures == {Image_load_png(w, h) : w \in 1..MaxTexture, h \in 1..MaxTexture}

\* `x as u32` for an f32 given in quarters: the fraction is dropped and a
\* negative value becomes 0 (no texel times a width comes near u32::MAX,
\* where the cast saturates).
as_u32(quarters) == IF quarters < 0 THEN 0 ELSE quarters \div 4

\* The (x, y) Image::get_pixel computes for the texel (u, v), in quarters.
pixel_position(image, u, v) == <<as_u32(u * image.width), as_u32(v * image.height)>>

\* Image::get_pixel: the pixel at x + width * y of the frame, a panic of
\* unwrap when the frame has no such index.
get_pixel(image, nframe, u, v) ==
    LET pos == pixel_position(image, u, v)
        i == pos[1] + image.width * pos[2]
    IN  IF nframe >= Len(image.buf) \/ i >= Len(image.buf[nframe + 1])
        THEN Panic("unwrap on None")
        ELSE image.buf[nframe + 1][i + 1]

\* The texels Sphere::get_texel_at gives on the six axis points of the unit
\* sphere, and the texels Triangle::texel_at gives (every multiple of a
\* quarter that % 1. leaves).
UnitSphere == Sphere_new(<<0, 0, 0>>, 1)
AxisPoints == {<<1, 0, 0>>, <<-1, 0, 0>>, <<0, 1, 0>>, <<0, -1, 0>>, <<0, 0, 1>>, <<0, 0, -1>>}
SphereTexels == {Sphere_get_texel_at(UnitSphere, p) : p \in AxisPoints}
MeshTexels == {<<Fract(a), Fract(b)>> : a \in -5..5, b \in -5..5}

\* Texture::get_color of an image texture: i.get_pixel(0, texel.0, texel.1).
CallGetPixel(image, texel) ==
    /\ call.fn = "none"
    /\ call' = [fn |-> "get_pixel", args |-> <<image, 0, texel[1], texel[2]>>]
    /\ outcome' = get_pixel(image, 0, texel[1], texel[2])
    /\ UNCHANGED <<varsRender, varsKernel, varsTrace>>

\* The most frames of an image that is averaged or saved.
MaxBlurFrames == 3

\* The colours of the rendered pixels (Rgb = [u8; 3]).
Pixels == {<<0, 0, 0>>, <<255, 255, 255>>, <<1, 2, 4>>}

\* The images run() has after its render loop: Image::new(width, height,
\* frames) with every pixel of every frame set by par_init_pixels.
RenderedImages == UNION {{[width |-> w, height |-> 1, buf |-> b] : b \in [1..f -> [1..w -> Pixels]]} : f \in 0..MaxBlurFrames, w \in 1..2}

\* The sum of channel c of pixel i over the first n frames, as u64.
RECURSIVE ChannelSum(_, _, _, _)
ChannelSum(buf, n, i, c) == IF n = 0 THEN 0 ELSE ChannelSum(buf, n - 1, i, c) + buf[n][i][c]

\* Image::average_frames: the frames are summed channel by channel as u64,
\* each sum is divided by the number of frames and cast to u8, and the
\* result replaces the first frame.  It panics on an image of no frames.
average_frames(image) ==
    IF Len(image.buf) = 0
    THEN Panic("Image should contain atleast one frame")
    ELSE LET frames == Len(image.buf)
             t == [i \in 1..Len(image.buf[1]) |-> [c \in 1..3 |-> (ChannelSum(image.buf, frames, i, c) \div frames) % 256]]
         IN  [image EXCEPT !.buf[1] = t]

\* image.average_frames(), called on a rendered image.
CallAverageFrames(image) ==
    /\ call.fn = "none"
    /\ call' = [fn |-> "average_frames", args |-> <<image>>]
    /\ outcome' = average_frames(image)
    /\ UNCHANGED <<varsRender, varsKernel, varsTrace>>

\* The command line options run() and the claims about it read.
Configs == [ppm : BOOLEAN, blur : BOOLEAN]

\* Image::save_apng writes every frame of the buffer.
save_apng(image) == [fn |-> "save_apng", written |-> image.buf]

\* Image::save_ppm and Image::save_png write the first frame, and panic on
\* an image without one.
save_ppm(image) == IF Len(image.buf) = 0 THEN Panic("image should contain atleast one frame") ELSE [fn |-> "save_ppm", written |-> <<image.buf[1]>>]
save_png(image) == IF Len(image.buf) = 0 THEN Panic("image should contain atleast one frame") ELSE [fn |-> "save_png", written |-> <<image.buf[1]>>]

\* Scene::is_animated for the scene the image was rendered from: the image
\* has scene.get_frames() frames.
is_animated(image) == Len(image.buf) > 1

\* run() from the end of the render loop to its return: the image is handed
\* to one of the three save functions as the loop left it.
run_save(image, config) ==
    IF is_animated(image) THEN save_apng(image)
    ELSE IF config.ppm THEN save_ppm(image)
    ELSE save_png(image)

\* run() saving the image it rendered under the given options.
CallRunSave(image, config) ==
    /\ call.fn = "none"
    /\ call' = [fn |-> "run", args |-> <<image, config>>]
    /\ outcome' = run_save(image, config)
    /\ UNCHANGED <<varsRender, varsKernel, varsTrace>>

\* The result of a call is a panic.
IsPanic(r) == "panic" \in DOMAIN r

\* str::parse::<u32> of one part of a face element.  A part is the number
\* it spells, or -1 when it spells none (an empty part, a letter, a sign).
parse_u32(part) == IF part < 0 THEN Err("invalid digit found in string") ELSE Ok(part)

\* One element v/vt/vn of a face line in parse_face: more than three parts
\* are an error, the vertex and normal parts must be numbers, and a texture
\* part that is no number counts as 0 (unwrap_or_default).
parse_face_elem(elem) ==
    IF Len(elem) > 3 THEN Err("Face data contains more than 3 elements")
    ELSE IF ~parse_u32(elem[1]).ok THEN parse_u32(elem[1])
    ELSE IF Len(elem) < 2 THEN Err("Expected texture coordinate data")
    ELSE IF Len(elem) < 3 THEN Err("Expected normal data")
    ELSE IF ~parse_u32(elem[3]).ok THEN parse_u32(elem[3])
    ELSE Ok(<<elem[1], IF parse_u32(elem[2]).ok THEN elem[2] ELSE 0, elem[3]>>)

\* parse_face: three elements, the first error of an element is returned,
\* else the triples of the vertex, texture and normal indices.
parse_face(line) ==
    IF Len(line) # 3 THEN Err(<<"Expected 3 elements but got", Len(line)>>)
    ELSE LET e == [i \in 1..3 |-> parse_face_elem(line[i])]
         IN  IF ~e[1].ok THEN e[1]
             ELSE IF ~e[2].ok THEN e[2]
             ELSE IF ~e[3].ok THEN e[3]
             ELSE Ok([k \in 1..3 |-> <<e[1].value[k], e[2].value[k], e[3].value[k]>>])

\* from.get((index - 1) as usize) of get_elements.  index - 1 is a u32
\* subtraction: for index 0 it panics when the build checks overflow and
\* wraps to u32::MAX when it does not, an index no list has.
get_element(from, index, overflow_checks) ==
    IF index = 0 /\ overflow_checks THEN Panic("attempt to subtract with overflow")
    ELSE IF index = 0 \/ index > Len(from) THEN Err(<<"Invalid index for face data", index>>)
    ELSE Ok(from[index])

\* get_elements: the three elements in order, the first failure is returned.
get_elements(from, indices, overflow_checks) ==
    LET g == [i \in 1..3 |-> get_element(from, indices[i], overflow_checks)]
        bad == {i \in 1..3 : IsPanic(g[i]) \/ ~g[i].ok}
    IN  IF bad = {} THEN Ok([i \in 1..3 |-> g[i].value]) ELSE g[SetMin(bad)]

\* err(current_line, msg): the InputError carries the 1-based line number.
err(current_line, msg) == Err([line |-> current_line + 1, msg |-> msg])

\* The "f" arm of parse for the line with index current_line: the texture
\* coordinates first (unless all three texture indices are 0), then the
\* vertices, then the normals.
parse_f(words, current_line, vertices, normals, texture, overflow_checks) ==
    LET face == parse_face(words)
    IN  IF ~face.ok THEN err(current_line, face.error)
        ELSE LET texcoords == IF face.value[2] # <<0, 0, 0>> THEN get_elements(texture, face.value[2], overflow_checks) ELSE Ok(<<<<0, 0>>, <<0, 0>>, <<0, 0>>>>)
                 verts == get_elements(vertices, face.value[1], overflow_checks)
                 norms == get_elements(normals, face.value[3], overflow_checks)
             IN  IF IsPanic(texcoords) THEN texcoords
                 ELSE IF ~texcoords.ok THEN err(current_line, texcoords.error)
                 ELSE IF IsPanic(verts) THEN verts
                 ELSE IF ~verts.ok THEN err(current_line, verts.error)
                 ELSE IF IsPanic(norms) THEN norms
                 ELSE IF ~norms.ok THEN err(current_line, norms.error)
                 ELSE Ok(Triangle_new(verts.value, norms.value, texcoords.value))

\* objparser::parse from line k (counted from 1) on.  A line is its first
\* word (tag) and the words after it; the words of a v, vn or vt line are
\* its numbers, the words of an f line its elements, each split at "/".
RECURSIVE parse_from(_, _, _, _, _, _, _)
parse_from(src, k, vertices, normals, texture, triangles, overflow_checks) ==
    IF k > Len(src) THEN Ok(triangles)
    ELSE LET line == src[k]
         IN  CASE line.tag = "v" ->
                    IF Len(line.words) # 3 THEN err(k - 1, <<"Expected 3 elements but got", Len(line.words)>>)
                    ELSE parse_from(src, k + 1, Append(vertices, line.words), normals, texture, triangles, overflow_checks)
               [] line.tag = "vn" ->
                    IF Len(line.words) # 3 THEN err(k - 1, <<"Expected 3 elements but got", Len(line.words)>>)
                    ELSE parse_from(src, k + 1, vertices, Append(normals, line.words), texture, triangles, overflow_checks)
               [] line.tag = "vt" ->
                    IF Len(line.words) # 2 THEN err(k - 1, <<"Expected 2 elements but got", Len(line.words)>>)
                    ELSE parse_from(src, k + 1, vertices, normals, Append(texture, line.words), triangles, overflow_checks)
               [] line.tag = "f" ->
                    LET tri == parse_f(line.words, k - 1, vertices, normals, texture, overflow_checks)
                    IN  IF IsPanic(tri) \/ ~tri.ok THEN tri
                        ELSE parse_from(src, k + 1, vertices, normals, texture, Append(triangles, tri.value), overflow_checks)
               [] OTHER -> parse_from(src, k + 1, vertices, normals, texture, triangles, overflow_checks)

\* objparser::parse.
parse(src, overflow_checks) == parse_from(src, 1, <<>>, <<>>, <<>>, <<>>, overflow_checks)

\* The largest index written in a face line.
MaxIndex == 3

ObjLine(tag, words) == [tag |-> tag, words |-> words]

\* The .obj files the parser is called with: an optional comment line, one
\* or two v lines, one vn line, no or one vt line, an optional well-formed
\* face, the face under test, and a v line after it.
FaceElems ==
    {<<v, t, n>> : v \in -1..MaxIndex, t \in -1..2, n \in -1..2}
    \cup {<<1>>, <<1, 1>>, <<1, 1, 1, 1>>}

FaceLines ==
    {ObjLine("f", <<e, <<1, t, 1>>, <<1, 0, 1>>>>) : e \in FaceElems, t \in {0, 1}}
    \cup {ObjLine("f", <<<<1, 0, 1>>, <<1, 0, 1>>, <<1, 0, n>>>>) : n \in 0..2}
    \cup {ObjLine("f", <<<<1, 0, 1>>, <<1, 0, 1>>>>)}

ObjHeaders ==
    {c \o v \o <<ObjLine("vn", <<0, 0, 1>>)>> \o t \o g :
        c \in {<<>>, <<ObjLine("#", <<>>)>>},
        v \in {<<ObjLine("v", <<1, 0, 0>>)>>, <<ObjLine("v", <<1, 0, 0>>), ObjLine("v", <<0, 1, 0>>)>>},
        t \in {<<>>, <<ObjLine("vt", <<0, 0>>)>>},
        g \in {<<>>, <<ObjLine("f", <<<<1, 0, 1>>, <<1, 0, 1>>, <<1, 0, 1>>>>)>>}}

ObjFiles == {h \o <<f, ObjLine("v", <<0, 0, 1>>)>> : h \in ObjHeaders, f \in FaceLines}

\* parse(file), as SerialSurface::convert_to_surface calls it for a mesh, in
\* a build with or without overflow checks.
CallParse(src, overflow_checks) ==
    /\ call.fn = "none"
    /\ call' = [fn |-> "parse", args |-> <<src, overflow_checks>>]
    /\ outcome' = parse(src, overflow_checks)
    /\ UNCHANGED <<varsRender, varsKernel, varsTrace>>

\* The largest Phong exponent of a shading call.
MaxExp == 2

\* The unit vectors along the axes.
AxisVectors == {<<1, 0, 0>>, <<-1, 0, 0>>, <<0, 1, 0>>, <<0, -1, 0>>, <<0, 0, 1>>, <<0, 0, -1>>}

\* ShadingModel::phong_color as shading_color calls it for one light: the
\* Phong parameters, the direction of the light, the normal at the hit and
\* the direction of the eye ray; white light on a white surface.
CallPhongColor(kd, ks, exp, neg_light, vnormal, neg_veye) ==
    /\ call.fn = "none"
    /\ call' = [fn |-> "phong_color", args |-> <<kd, ks, exp, <<256, 256, 256>>, neg_light, vnormal, neg_veye, <<1, 1, 1>>>>]
    /\ outcome' = phong_color(kd, ks, exp, <<256, 256, 256>>, neg_light, vnormal, neg_veye, <<1, 1, 1>>)
    /\ UNCHANGED <<varsRender, varsKernel, varsTrace>>

(***************************************************************************)
(* objects/surface/julia_set.rs: the march of intersection_dist in f32     *)
(*                                                                         *)
(* The positions and distances of a march are f32 values, written here as  *)
(* integer multiples of 2^-26; the direction is an axis vector, written in *)
(* whole units.  The distance estimate is read from the table of the set,  *)
(* as in the kernels above.                                                *)
(***************************************************************************)
\* The distance between neighbouring f32 values at n >= 0: an f32 keeps 24
\* significant bits.
RECURSIVE F32Spacing(_)
F32Spacing(n) == IF n < 2^24 THEN 1 ELSE 2 * F32Spacing(n \div 2)

\* The f32 nearest to n, ties to the even mantissa.
F32Round(n) ==
    LET a == Abs(n)
        e == F32Spacing(a)
        q == a \div e
        r == a % e
        up == 2 * r > e \/ (2 * r = e /\ q % 2 = 1)
        m == IF up THEN (q + 1) * e ELSE q * e
    IN  IF n < 0 THEN -m ELSE m

\* x * x in f32 for a coordinate that is a multiple of 2^-13; any other
\* coordinate stops TLC.
F32Square(x) == F32Round(Div(x, 2^13) * Div(x, 2^13))

\* Vec3::length_squared in f32
F32LengthSquared(p) ==
    F32Round(F32Round(F32Square(p[1]) + F32Square(p[2])) + F32Square(p[3]))

\* `orig += dir * dist`
F32Advance(orig, dir, dist) ==
    [k \in 1..3 |-> F32Round(orig[k] + F32Round(dir[k] * dist))]

\* JuliaSet::BOUNDING_RADIUS_2 = 2.5 in multiples of 2^-26
F32_BOUNDING_RADIUS_2 == 5 * 2^25

\* JuliaSet::intersection_dist is entered with the ray w.
CallIntersectionDist(j, w) ==
    /\ call.fn = "none"
    /\ call' = [fn |-> "intersection_dist", args |-> <<j, w>>]
    /\ outcome' = [pc |-> "entry", dist |-> 0, orig |-> w.origin, prev |-> w.origin]
    /\ UNCHANGED <<varsRender, varsKernel, varsTrace>>

\* One iteration of the loop of JuliaSet::intersection_dist.
MarchStep ==
    /\ call.fn = "intersection_dist"
    /\ outcome.pc \in {"entry", "loop"}
    /\ LET j == call.args[1]
           dir == call.args[2].direction
           dist == Estimate(j, outcome.orig).dist
           orig == F32Advance(outcome.orig, dir, dist)
       IN  outcome' = [pc |-> IF dist < j.epsilon
                                   \/ F32LengthSquared(orig) > F32_BOUNDING_RADIUS_2
                               THEN "break" ELSE "loop",
                       dist |-> dist, orig |-> orig, prev |-> outcome.orig]
    /\ UNCHANGED <<call, varsRender, varsKernel, varsTrace>>

\* A set whose surface lies at z = 1/2 on the z axis: from (0, 0, 3/2) the
\* estimates are 1/2, 1/4, 1/8, 1/8 and then 0.
CoarseJulia(epsilon) ==
    JuliaSet_new(<<0, 0, 0>>, epsilon,
                 (<<0, 0, 3 * 2^25>> :> [dist |-> 2^25, normal |-> <<0, 0, 2^26>>])
                     @@ (<<0, 0, 2^26>> :> [dist |-> 2^24, normal |-> <<0, 0, 2^26>>])
                     @@ (<<0, 0, 3 * 2^24>> :> [dist |-> 2^23, normal |-> <<0, 0, 2^26>>])
                     @@ (<<0, 0, 5 * 2^23>> :> [dist |-> 2^23, normal |-> <<0, 0, 2^26>>])
                     @@ (<<0, 0, 2^25>> :> [dist |-> 0, normal |-> <<0, 0, 2^26>>]),
                 [dist |-> 2^26, normal |-> <<0, 0, 2^26>>])

\* The same set seen with a small epsilon: at (0, 0, 5/8) the estimate is
\* 2^-26, not below epsilon.
FineJulia(epsilon) ==
    JuliaSet_new(<<0, 0, 0>>, epsilon,
                 (<<0, 0, 3 * 2^25>> :> [dist |-> 2^25, normal |-> <<0, 0, 2^26>>])
                     @@ (<<0, 0, 2^26>> :> [dist |-> 2^24, normal |-> <<0, 0, 2^26>>])
                     @@ (<<0, 0, 3 * 2^24>> :> [dist |-> 2^23, normal |-> <<0, 0, 2^26>>])
                     @@ (<<0, 0, 5 * 2^23>> :> [dist |-> 1, normal |-> <<0, 0, 2^26>>]),
                 [dist |-> 2^26, normal |-> <<0, 0, 2^26>>])

MaxEpsilon == 2

MarchSets ==
    {CoarseJulia(2^20 * e) : e \in 1..MaxEpsilon} \cup {FineJulia(e) : e \in 1..MaxEpsilon}

MarchRays ==
    {Ray_new(<<0, 0, z>>, d) : z \in {3 * 2^25, 2^26}, d \in AxisVectors}

InitCall ==
    /\ RenderIdle
    /\ KernelIdle
    /\ TraceIdle
    /\ CallIdle

NextCall ==
    \/ call.fn = "none" /\ \E serial \in SerialSpheres : CallConvertToSurface(serial)
    \/ call.fn = "none" /\ \E image \in Textures, texel \in SphereTexels \cup MeshTexels : CallGetPixel(image, texel)
    \/ call.fn = "none" /\ \E image \in RenderedImages : CallAverageFrames(image)
    \/ call.fn = "none" /\ \E image \in RenderedImages, config \in Configs : CallRunSave(image, config)
    \/ call.fn = "none" /\ \E src \in ObjFiles, overflow_checks \in BOOLEAN : CallParse(src, overflow_checks)
    \/ call.fn = "none" /\ \E kd \in 0..1, ks \in 0..1, exp \in 0..MaxExp, neg_light \in AxisVectors, vnormal \in AxisVectors, neg_veye \in AxisVectors : CallPhongColor(kd, ks, exp, neg_light, vnormal, neg_veye)
    \/ call.fn = "none" /\ \E j \in MarchSets, w \in MarchRays : CallIntersectionDist(j, w)
    \/ MarchStep

SpecCall == InitCall /\ [][NextCall]_vars

(***************************************************************************)
(* Properties of the loader.                                               *)
(***************************************************************************)

\* Material's documented invariant, weights in quarters.
WeightsInRange(material) ==
    /\ material.reflectance \in 0..4
    /\ material.transmittance \in 0..4
    /\ material.reflectance + material.transmittance <= 4

C19_TexelInsideImage ==
    call.fn = "get_pixel" =>
        LET image == call.args[1]
            pos == pixel_position(image, call.args[3], call.args[4])
        IN  /\ pos[1] < image.width
            /\ pos[2] < image.height
            /\ outcome = image.buf[1][pos[1] + image.width * pos[2] + 1]


\* The integer mean of channel c of pixel i over all frames of the buffer.
Mean(buf, i, c) == ChannelSum(buf, Len(buf), i, c) \div Len(buf)

MeanFrame(buf) == [i \in 1..Len(buf[1]) |-> [c \in 1..3 |-> Mean(buf, i, c)]]

\* C20: with --blur the frames are averaged into one image before saving:
\* the saved image is a single frame, each channel of each pixel the integer
\* mean of that channel over all rendered frames.
C20_BlurSavesMean ==
    (call.fn = "run" /\ call.args[2].blur /\ Len(call.args[1].buf) >= 1) =>
        /\ "written" \in DOMAIN outcome
        /\ outcome.written = <<MeanFrame(call.args[1].buf)>>

\* Image::average_frames on its own does what C20 says of it: the first
\* frame becomes the mean frame, and an image of one frame is not changed.
AverageFramesIsMean ==
    (call.fn = "average_frames" /\ Len(call.args[1].buf) >= 1) =>
        /\ outcome.buf[1] = MeanFrame(call.args[1].buf)
        /\ Len(call.args[1].buf) = 1 => outcome = call.args[1]


(***************************************************************************)
(* Properties of the .obj parser.                                          *)
(***************************************************************************)

\* The number of lines with the given tag before line k of the file.
CountBefore(src, k, tag) == Cardinality({j \in 1..(k - 1) : src[j].tag = tag})

\* Line k is a face line of three elements v/vt/vn, all parts numbers.
WellFormedFace(src, k) ==
    /\ src[k].tag = "f"
    /\ Len(src[k].words) = 3
    /\ \A i \in 1..3 : Len(src[k].words[i]) = 3 /\ \A j \in 1..3 : src[k].words[i][j] >= 0

\* Line k is a well-formed face line with a vertex or normal index that is
\* 0, or a vertex, texture or normal index above the number of entries on
\* earlier lines.
BadIndexFace(src, k) ==
    /\ WellFormedFace(src, k)
    /\ \E i \in 1..3 :
        \/ src[k].words[i][1] = 0
        \/ src[k].words[i][3] = 0
        \/ src[k].words[i][1] > CountBefore(src, k, "v")
        \/ src[k].words[i][2] > CountBefore(src, k, "vt")
        \/ src[k].words[i][3] > CountBefore(src, k, "vn")

\* C21: when a face line has an index that is 0 where one is required, or
\* above the number of entries read before it, parse returns an InputError
\* naming that line (1-based): no panic, no wrapped index, no triangles.
C21_BadIndexIsError ==
    call.fn = "parse" =>
        LET src == call.args[1]
        IN  \A k \in 1..Len(src) :
                (/\ \A j \in 1..k : src[j].tag = "f" => WellFormedFace(src, j)
                 /\ BadIndexFace(src, k)
                 /\ \A j \in 1..(k - 1) : ~BadIndexFace(src, j))
                => (~IsPanic(outcome) /\ ~outcome.ok /\ outcome.error.line = k)


(***************************************************************************)
(* Further properties of the kernels.                                      *)
(***************************************************************************)

\* The kernel of the surface has been called on the transformed ray.
KernelCalled == kpc \in {"finish", "returned", "tested", "done"}

\* The root numerators of the sphere for the ray `with`: the roots are
\* (h - sqrt(discr)) / a and (h + sqrt(discr)) / a, with a > 0.
Roots(s, w) ==
    LET k == intersection_coefficients(s, w)
        discr == k.h * k.h - k.a * k.c
    IN  [a |-> k.a, discr |-> discr,
         small |-> IF discr < 0 THEN 0 ELSE k.h - Sqrt(discr),
         large |-> IF discr < 0 THEN 0 ELSE k.h + Sqrt(discr)]

\* The root num / a lies within the bounds of the ray.
RootInBounds(w, num, a) == 0 <= num /\ (w.max_t = INFINITY \/ num <= w.max_t * a)

\* C22: Sphere::intersection returns none for a negative discriminant, the
\* smaller root when it lies in [0, max_t], the larger root when the smaller
\* is negative and the larger lies in [0, max_t], and none otherwise.
C22_SphereRoots ==
    (KernelCalled /\ surface.obj.kind = "Sphere") =>
        LET r == Roots(surface.obj, with)
        IN  IF r.discr < 0 THEN kernel = None
            ELSE IF RootInBounds(with, r.small, r.a)
                 THEN IsSome(kernel) /\ Unwrap(kernel).t * r.a = r.small
            ELSE IF r.small < 0 /\ RootInBounds(with, r.large, r.a)
                 THEN IsSome(kernel) /\ Unwrap(kernel).t * r.a = r.large
            ELSE kernel = None

\* The origin of the ray lies inside the sphere and the larger root is
\* returned.
C22_Witness ==
    /\ KernelCalled
    /\ surface.obj.kind = "Sphere"
    /\ Roots(surface.obj, with).discr > 0
    /\ Roots(surface.obj, with).small < 0
    /\ IsSome(kernel)
    /\ Unwrap(kernel).t * Roots(surface.obj, with).a = Roots(surface.obj, with).large


\* The intersection [t_min, t_max] of the three slab intervals of the box
\* for the ray: the largest near value and the smallest far value.
SlabInterval(bb, w) ==
    LET slabs == {Slab(bb, w, k) : k \in 1..3}
    IN  [t_min |-> (CHOOSE a \in slabs : \A b \in slabs : FGe(a[1], b[1]))[1],
         t_max |-> (CHOOSE a \in slabs : \A b \in slabs : FLe(a[2], b[2]))[2]]

\* Every bound of every slab is a number or an infinity (no 0 / 0).
SlabsDefined(bb, w) == \A k \in 1..3 : ~FIsNaN(Slab(bb, w, k)[1]) /\ ~FIsNaN(Slab(bb, w, k)[2])

\* C23: BoundingBox::has_intersection reports a hit exactly when the
\* interval [t_min, t_max] of the slabs is not empty and overlaps the closed
\* interval [0, max_t]: t_min <= t_max, t_min <= max_t and t_max >= 0.
C23_BoxOverlapClosed ==
    (KernelCalled /\ surface.obj.kind = "Mesh" /\ SlabsDefined(surface.obj.bounding_box, with)) =>
        LET i == SlabInterval(surface.obj.bounding_box, with)
        IN  BoundingBox_has_intersection(surface.obj.bounding_box, with)
                <=> (/\ FLe(i.t_min, i.t_max)
                     /\ FLe(i.t_min, FMaxT(with))
                     /\ FGe(i.t_max, FNum(0)))

\* The linear scan over the triangles of a mesh without the box: the hit
\* of least t, the first of several.
UngatedScan(m, w) == MinByT(Flatten([i \in 1..Len(m.triangles) |-> Triangle_intersection(m.triangles[i], w)]))

\* C24: the bounding box of a mesh never changes the result: Mesh::intersection
\* is the hit of least t of the scan over all triangles, Mesh::has_intersection
\* is true exactly when some triangle is hit.
C24_GateIsTransparent ==
    /\ (KernelCalled /\ surface.obj.kind = "Mesh") => kernel = UngatedScan(surface.obj, with)
    /\ (kpc \in {"tested", "done"} /\ surface.obj.kind = "Mesh") =>
           (has[1] <=> \E i \in 1..Len(surface.obj.triangles) : Triangle_has_intersection(surface.obj.triangles[i], with))


(***************************************************************************)
(* Properties of the shading.                                              *)
(***************************************************************************)

\* The vectors of the Phong formula for the arguments of the call: the unit
\* light direction l, the flipped normal n, r = reflect(l, n) and the unit
\* eye vector e.
PhongVectors(a) ==
    LET l == Normal(a[5])
        n == VNeg(Normal(a[6]))
    IN  [l |-> l, n |-> n, r |-> Reflect(l, n), e |-> VNeg(Normal(a[7]))]

\* The colour of the call with kd, or ks, replaced by 0: the specular term
\* alone, or the diffuse term alone.
SpecularAlone(a) == phong_color(0, a[2], a[3], a[4], a[5], a[6], a[7], a[8])
DiffuseAlone(a) == phong_color(a[1], 0, a[3], a[4], a[5], a[6], a[7], a[8])

\* C25: for every exponent, 0 included, the diffuse term of phong_color is
\* zero whenever l . n <= 0 and the specular term is zero whenever
\* e . r <= 0.
C25_PhongTermsVanish ==
    call.fn = "phong_color" =>
        LET v == PhongVectors(call.args)
        IN  /\ Dot(v.l, v.n) <= 0 => outcome = SpecularAlone(call.args)
            /\ Dot(v.e, v.r) <= 0 => outcome = DiffuseAlone(call.args)


\* C26: for every surface and every ray the any-hit query agrees with the
\* closest-hit query: has_intersection is true exactly when intersection
\* is defined.
C26_AnyHitAgrees ==
    kpc \in {"tested", "done"} => (has[1] <=> IsSome(ret))


(***************************************************************************)
(* Properties of the progress thread.                                      *)
(***************************************************************************)

\* The messages the printer has consumed: N for each frame it has counted
\* off and the pixels of the frame it is counting.
Consumed == (printer.frame - 1) * NumCells + printer.pixels_processed

\* C27: with the progress bar and a scene of F >= 1 frames of N >= 1
\* pixels, the printer has consumed F * N messages, one for each rendered
\* pixel, when it exits, so that the bar of every frame 1..F ran to its end.
C27_PrinterCountsEveryPixel ==
    (cfg.progress_bar /\ cfg.frames >= 1 /\ NumCells >= 1 /\ printer.pc = "exited")
        => Consumed = cfg.frames * NumCells

\* C28: in every state of the printer thread the counter of the bar is at
\* most its maximum, so the filled cells never exceed WIDTH and
\* WIDTH - full does not underflow.
C28_CounterWithinMax ==
    printer.pc \in {"recv", "exited"} =>
        /\ printer.curr <= printer.max
        /\ printer.max > 0 => ProgressBar_full(printer) <= WIDTH


(***************************************************************************)
(* Properties of the frame counter                                         *)
(***************************************************************************)
\* The value x / d lies between a and b, whichever of the two is larger.
Between(x, d, a, b) ==
    /\ (IF a < b THEN a ELSE b) * d <= x
    /\ x <= (IF a < b THEN b ELSE a) * d

\* C29: in every state of a run with at least one frame the scene's frame
\* counter satisfies 1 <= curr_frame <= total_frames, so the weight
\* curr_frame / total_frames is at most 1 and the radius and the centre of
\* every animated sphere lie between their start and end values.
C29_FrameCounterInRange ==
    cfg.frames >= 1 =>
       /\ 1 <= curr_frame
       /\ curr_frame <= cfg.frames
       /\ \A k \in 1..Len(surfaces) :
             IsAnimatedSphere(surfaces[k]) =>
                LET s == surfaces[k]
                IN /\ Between(s.radius, s.den, s.start[2], s.end[2])
                   /\ \A q \in 1..3 :
                         Between(s.center[q], s.den, s.start[1][q], s.end[1][q])


(***************************************************************************)
(* Properties of the march                                                 *)
(***************************************************************************)
\* C30: the loop of JuliaSet::intersection_dist terminates for every set with
\* epsilon > 0 and every ray with a non-zero direction: an iteration that
\* does not stop has an estimate of at least epsilon and has moved the origin
\* forward along the direction, so the loop cannot stay at one point.
C30_MarchAdvances ==
    (call.fn = "intersection_dist" /\ outcome.pc = "loop") =>
        /\ call.args[1].epsilon > 0
        /\ outcome.dist >= call.args[1].epsilon
        /\ Dot(VSub(outcome.orig, outcome.prev), call.args[2].direction) > 0

=============================================================================
